---- MODULE Spec2Model ----
(***************************************************************************)
(* State-machine model of the AI Scenario Builder wizard                   *)
(* (src/streamlit/steps.py, utils.py, scenario_writer.py, config.py).      *)
(*                                                                         *)
(* One script run of the Streamlit application is one step of the model:   *)
(* the step function of current_step is executed from its top (the part    *)
(* that runs on every render, generation included) and, when the run was   *)
(* caused by a button, the button's handler runs where the code reaches    *)
(* it.  A handler that ends in st.rerun() leaves a rerun pending; the      *)
(* pending rerun is a render without a button.                             *)
(*                                                                         *)
(* Conventions.  A Python value that may be missing (a key that is not in  *)
(* a dict, an attribute that is not in st.session_state, a file that does  *)
(* not exist) is a sequence of length 0 or 1: <<>> is "missing", <<v>> is  *)
(* "present with value v".  Python None for selected_scenario is PyNone;  *)
(* a None image_b64 or regenerate_image is "missing", as the code only     *)
(* tests their truth value.  A text is a sequence of word tokens, a        *)
(* title or directory name a sequence of one-character strings.            *)
(* current_step is kept in tenths, so that the step 0.5 of the source is   *)
(* the integer 5.                                                          *)
(***************************************************************************)
EXTENDS Integers, Sequences, FiniteSets, TLC

VARIABLES
    session_state,   \* st.session_state of the browser session that acts
    disk,            \* the data/ directory: text_outputs directory -> its documents
    page,            \* what the last script run left on the screen
    rerun,           \* TRUE while an st.rerun() is pending
    calls,           \* generate_text calls since a *_need_generation flag was last armed
    sessions,        \* browser sessions opened so far on this data directory
    gpt_content,     \* provider response text handed to the scenario parser
    gpt_scenarios,   \* result of generate_scenario_summaries_with_gpt for gpt_content
    parked           \* a second browser session on the same server, while it does not act

vars ==
    <<session_state, disk, page, rerun, calls, sessions, gpt_content, gpt_scenarios, parked>>

----------------------------------------------------------------------------
(* Bounds of the model *)

\* longest provider response, in lines, given to the scenario parser
MaxLines == 4

\* cap of the per-stage call counters
MaxCalls == 2

\* browser sessions opened one after the other on the same data directory
MaxSessions == 3

----------------------------------------------------------------------------
(* Optional values *)

Some(v) == <<v>>
Missing == <<>>
Has(o) == o /= <<>>
Get(o, default) == IF o = <<>> THEN default ELSE o[1]

PyNone == -1

----------------------------------------------------------------------------
(* Characters and names: str.isalnum, str.lower, str.title, rstrip, replace *)

LowerCase == {"a", "b", "c", "d", "e", "f", "g", "h", "i", "j", "k", "l", "m",
              "n", "o", "p", "q", "r", "s", "t", "u", "v", "w", "x", "y", "z"}
UpperCase == {"A", "B", "C", "D", "E", "F", "G", "H", "I", "J", "K", "L", "M",
              "N", "O", "P", "Q", "R", "S", "T", "U", "V", "W", "X", "Y", "Z"}
Digits == {"0", "1", "2", "3", "4", "5", "6", "7", "8", "9"}

CasePairs == { <<"a", "A">>, <<"b", "B">>, <<"c", "C">>, <<"d", "D">>, <<"e", "E">>,
               <<"f", "F">>, <<"g", "G">>, <<"h", "H">>, <<"i", "I">>, <<"j", "J">>,
               <<"k", "K">>, <<"l", "L">>, <<"m", "M">>, <<"n", "N">>, <<"o", "O">>,
               <<"p", "P">>, <<"q", "Q">>, <<"r", "R">>, <<"s", "S">>, <<"t", "T">>,
               <<"u", "U">>, <<"v", "V">>, <<"w", "W">>, <<"x", "X">>, <<"y", "Y">>,
               <<"z", "Z">> }

IsAlpha(c) == c \in LowerCase \cup UpperCase
IsAlnum(c) == IsAlpha(c) \/ c \in Digits

LowerChar(c) == IF c \in UpperCase THEN (CHOOSE p \in CasePairs : p[2] = c)[1] ELSE c
UpperChar(c) == IF c \in LowerCase THEN (CHOOSE p \in CasePairs : p[1] = c)[2] ELSE c

\* "".join(c for c in value if c.isalnum() or c in (' ', '-', '_'))
RECURSIVE KeepNameChars(_)
KeepNameChars(s) ==
    IF s = <<>> THEN <<>>
    ELSE IF IsAlnum(Head(s)) \/ Head(s) \in {" ", "-", "_"}
         THEN <<Head(s)>> \o KeepNameChars(Tail(s))
         ELSE KeepNameChars(Tail(s))

\* str.rstrip()
RECURSIVE RStrip(_)
RStrip(s) ==
    IF s = <<>> THEN <<>>
    ELSE IF s[Len(s)] = " " THEN RStrip(SubSeq(s, 1, Len(s) - 1)) ELSE s

\* str.replace(old, new) for single characters
ReplaceChar(s, old, new) == [i \in 1..Len(s) |-> IF s[i] = old THEN new ELSE s[i]]

\* str.lower()
Lower(s) == [i \in 1..Len(s) |-> LowerChar(s[i])]

\* str.title(): a letter that follows a non-letter is upper-cased, any other letter lower-cased
Title(s) ==
    [i \in 1..Len(s) |->
        IF i = 1 \/ ~IsAlpha(s[i - 1]) THEN UpperChar(s[i]) ELSE LowerChar(s[i])]

\* a variant of the expression without rstrip()
CleanNameNoStrip(title) == ReplaceChar(KeepNameChars(title), " ", "_")

\* the directory-name expression of save_to_json, get_scenario_filepath and the steps
CleanName(title) == ReplaceChar(RStrip(KeepNameChars(title)), " ", "_")

\* _sanitize_name of steps.py
_sanitize_name(value, fallback) ==
    IF CleanName(value) = <<>> THEN fallback ELSE CleanName(value)

----------------------------------------------------------------------------
(* Steps of the wizard, in tenths (current_step values assigned by steps.py) *)

STEP_INITIAL == 0
STEP_EXISTING == 5
STEP_SETUP == 10
STEP_REVIEW == 20
STEP_SCENARIO == 30
STEP_METADATA == 40
STEP_SCREENS == 50
STEP_IMAGES == 60
STEP_PREVIEW == 70

----------------------------------------------------------------------------
(* Values of the model *)

\* titles the user may type into the Setup form
CourseTitles == { <<"a", " ", "b">> }
ModuleTitles == { <<"m">> }

\* the four required fields of the Setup form besides the two titles
RequiredDetails == {"professional_domain", "course_description", "key_concept", "existing_challenge"}

\* get_default_form_data(): every section an empty dict
get_default_form_data ==
    [course_title |-> Missing, module_title |-> Missing, details |-> {}]

UNKNOWN_COURSE == <<"u", "n", "k", "n", "o", "w", "n", "_", "c", "o", "u", "r", "s", "e">>
UNKNOWN_MODULE == <<"u", "n", "k", "n", "o", "w", "n", "_", "m", "o", "d", "u", "l", "e">>

\* the empty dict {} as scenario data, metadata, screen data and image entry
EmptyScenario ==
    [generated_scenarios |-> Missing, selected_scenario |-> Missing,
     final_scenario |-> Missing, scenario_description |-> Missing]
EmptyMetadata ==
    [num_screens |-> Missing, aspect_ratio |-> Missing, visual_style |-> Missing, actors |-> Missing]
EmptyScreenData == [screens |-> Missing]
EmptyImage == [image_b64 |-> Missing, accepted |-> Missing, screen_number |-> Missing]

\* a text_outputs directory without any document; garbled holds the names of the
\* files that exist but do not hold a complete JSON document
EmptyDir ==
    [context |-> Missing, scenario_descriptions |-> Missing, scenario_metadata |-> Missing,
     screens |-> Missing, generated_images |-> Missing, composited_screens |-> Missing,
     garbled |-> {}]

\* initialize_session_state() of config.py: every other key is not in st.session_state
FreshSession ==
    [current_step |-> STEP_INITIAL,
     workflow_mode |-> "None",
     form_data |-> get_default_form_data,
     scenario_data |-> Missing,
     scenarios_need_generation |-> Missing,
     metadata_data |-> Missing,
     metadata_need_generation |-> Missing,
     screen_data |-> Missing,
     screens_need_generation |-> Missing,
     generated_images |-> Missing,
     current_image_index |-> Missing,
     regenerate_image |-> Missing,
     preview_index |-> Missing,
     should_save_composited |-> FALSE]

NoCalls == [generate_text |-> 0]

\* the second browser session before it is opened
NotOpened == [ss |-> FreshSession, page |-> "rerun", rr |-> TRUE, calls |-> NoCalls]

\* saturating call counter
Bump(n) == IF n < MaxCalls THEN n + 1 ELSE MaxCalls

----------------------------------------------------------------------------
(* The data directory *)

\* os.path.exists(<dir>/<document>) for a document of a text_outputs directory
DirOf(dk, path) == IF path \in DOMAIN dk THEN dk[path] ELSE EmptyDir

\* a variant of the write that leaves an existing document alone
WriteIfAbsent(dk, path, doc, payload) ==
    [p \in DOMAIN dk \cup {path} |->
        IF p = path /\ ~Has(DirOf(dk, path)[doc])
        THEN [DirOf(dk, path) EXCEPT ![doc] = Some(payload)]
        ELSE DirOf(dk, p)]

\* open(path, 'w') + json.dump after os.makedirs(..., exist_ok=True)
WriteDoc(dk, path, doc, payload) ==
    [p \in DOMAIN dk \cup {path} |->
        IF p = path
        THEN [DirOf(dk, path) EXCEPT ![doc] = Some(payload), !.garbled = @ \ {doc}]
        ELSE dk[p]]

\* os.path.exists(<file of doc>)
FileExists(dir, doc) == Has(dir[doc]) \/ doc \in dir.garbled

\* open(path, 'w') truncates the file; it stays empty or cut off when json.dump does
\* not run to its end
Garble(dk, path, doc) ==
    [p \in DOMAIN dk \cup {path} |->
        IF p = path
        THEN [DirOf(dk, path) EXCEPT ![doc] = Missing, !.garbled = @ \cup {doc}]
        ELSE dk[p]]

\* save_to_json of utils.py: directory of context.json
ContextPath(fd) ==
    << CleanName(Get(fd.course_title, UNKNOWN_COURSE)),
       CleanName(Get(fd.module_title, UNKNOWN_MODULE)) >>

\* get_scenario_filepath of scenario_writer.py: directory of scenario_descriptions.json
get_scenario_filepath(fd) ==
    << CleanName(Get(fd.course_title, UNKNOWN_COURSE)),
       CleanName(Get(fd.module_title, UNKNOWN_MODULE)) >>

\* the f"data/{course_name}/{module_name}/text_outputs/..." paths built inside the steps
StepPath(fd) ==
    << CleanName(Get(fd.course_title, <<>>)), CleanName(Get(fd.module_title, <<>>)) >>

\* _get_text_output_dir of steps.py (creates the directory)
_get_text_output_dir(fd) ==
    << _sanitize_name(Get(fd.course_title, <<>>), <<"c", "o", "u", "r", "s", "e">>),
       _sanitize_name(Get(fd.module_title, <<>>), <<"m", "o", "d", "u", "l", "e">>) >>

\* save_to_json(): writes st.session_state.form_data to context.json
save_to_json(dk, fd) == WriteDoc(dk, ContextPath(fd), "context", fd)

\* get_existing_courses(): display names of the directories under data/
get_existing_courses(dk) ==
    { Title(ReplaceChar(p[1], "_", " ")) : p \in DOMAIN dk }

\* get_existing_modules(course_name): display names of the directories under the
\* lower-cased course directory
get_existing_modules(dk, course_name) ==
    { Title(ReplaceChar(p[2], "_", " ")) :
        p \in { q \in DOMAIN dk : q[1] = ReplaceChar(Lower(course_name), " ", "_") } }

\* base_path of the Continue button: lower-cased display names
ContinuePath(course, module) ==
    << ReplaceChar(Lower(course), " ", "_"), ReplaceChar(Lower(module), " ", "_") >>

----------------------------------------------------------------------------
(* generate_scenario_summaries_with_gpt: the provider call and the parse of *)
(* its response.  A response is a sequence of lines, a line (after strip())  *)
(* a sequence of tokens: "S1", "S2", "S3" are the marker strings            *)
(* "SCENARIO 1:", "SCENARIO 2:", "SCENARIO 3:", any other token is a word.  *)

Markers == {"S1", "S2", "S3"}

\* line.startswith("SCENARIO 1:") or ... 2 ... or ... 3
StartsWithMarker(line) == line /= <<>> /\ line[1] \in Markers

\* line.replace("SCENARIO 1:", "").replace("SCENARIO 2:", "").replace("SCENARIO 3:", "").strip()
RECURSIVE RemoveMarkers(_)
RemoveMarkers(line) ==
    IF line = <<>> THEN <<>>
    ELSE IF Head(line) \in Markers THEN RemoveMarkers(Tail(line))
         ELSE <<Head(line)>> \o RemoveMarkers(Tail(line))

\* the for loop over the lines: acc = [scenarios, current_scenario]
RECURSIVE ScanLines(_, _)
ScanLines(lines, acc) ==
    IF lines = <<>> THEN acc
    ELSE LET line == Head(lines) IN
         IF StartsWithMarker(line)
         THEN ScanLines(Tail(lines),
                  [scenarios |-> IF acc.current /= <<>>
                                 THEN Append(acc.scenarios, acc.current)
                                 ELSE acc.scenarios,
                   current |-> RemoveMarkers(line)])
         ELSE IF acc.current /= <<>> /\ line /= <<>>
              THEN ScanLines(Tail(lines),
                       [scenarios |-> acc.scenarios, current |-> acc.current \o line])
              ELSE ScanLines(Tail(lines), acc)

PAD_SCENARIO == <<"Additional scenario could not be generated.">>
FAILED_SCENARIOS ==
    << <<"Scenario generation failed. Please try again or contact support.">>,
       <<"Unable to generate scenario at this time.">>,
       <<"Error occurred during scenario generation.">> >>

\* a parser without the padding loop
PadNothing(scenarios) == scenarios

\* while len(scenarios) < 3: scenarios.append(...)
RECURSIVE PadToThree(_)
PadToThree(scenarios) ==
    IF Len(scenarios) < 3 THEN PadToThree(Append(scenarios, PAD_SCENARIO)) ELSE scenarios

\* scenarios[:3]
FirstThree(scenarios) ==
    SubSeq(scenarios, 1, IF Len(scenarios) < 3 THEN Len(scenarios) ELSE 3)

\* the parse of a response that arrived
ParseScenarios(lines) ==
    LET acc == ScanLines(lines, [scenarios |-> <<>>, current |-> <<>>])
        found == IF acc.current /= <<>> THEN Append(acc.scenarios, acc.current)
                 ELSE acc.scenarios
    IN FirstThree(PadToThree(found))

\* generate_scenario_summaries_with_gpt: outcome.ok is FALSE when the call raises
generate_scenario_summaries_with_gpt(outcome) ==
    IF outcome.ok THEN ParseScenarios(outcome.content) ELSE FAILED_SCENARIOS

\* the shapes of a response line
LineShapes ==
    { <<>>, <<"w">>, <<"S1">>, <<"S1", "w">>, <<"S2", "w">>, <<"S3", "w">>,
      <<"w", "S2">>, <<"S3", "S1", "w">> }

\* every response of at most n lines
RECURSIVE ResponsesUpTo(_)
ResponsesUpTo(n) ==
    IF n = 0 THEN { <<>> }
    ELSE LET shorter == ResponsesUpTo(n - 1) IN
         shorter \cup { Append(r, l) : r \in { x \in shorter : Len(x) = n - 1 }, l \in LineShapes }

ProviderFault == [ok |-> FALSE, content |-> <<>>]
ScenarioOutcomes ==
    { [ok |-> TRUE, content |-> r] : r \in ResponsesUpTo(MaxLines) } \cup { ProviderFault }

\* the responses the wizard model draws from when it renders ScenarioSelection
WizardScenarioOutcomes ==
    { [ok |-> TRUE, content |-> << <<"S1", "x">>, <<"S2", "y">>, <<"S3", "z">> >>] }

\* the options the user of the wizard model clicks
OptionsClicked == {2}

----------------------------------------------------------------------------
(* Script runs.  The top of a step function maps the session and the disk  *)
(* to the session and disk it leaves, the page it shows, the call counters *)
(* and whether it ended in st.rerun().                                      *)

Out(ss, dk, pg, cl, rr) == [ss |-> ss, dk |-> dk, page |-> pg, calls |-> cl, rr |-> rr]

\* the outcome of a handler that ends in st.rerun(): nothing is shown until the rerun
Rerun(ss, dk, cl) == Out(ss, dk, "rerun", cl, TRUE)

\* a *_need_generation flag is set to True: the count of generator calls starts again
Arm(cl) == [cl EXCEPT !.generate_text = 0]

\* generate_text is called; armed is TRUE when the run itself has just set the flag
Call(cl, armed) == [cl EXCEPT !.generate_text = IF armed THEN 1 ELSE Bump(@)]

\* truth value of a Python string that may be missing
TruthyText(o) == Has(o) /\ o[1] /= <<>>

(* ---- step 0: step_initial_selection ---- *)

TopInitial(ss, dk, cl) ==
    Out([ss EXCEPT !.form_data = get_default_form_data], dk, "main", cl, FALSE)

\* "Create New Project"
OnCreateNewProject(o) ==
    Rerun([o.ss EXCEPT !.workflow_mode = "new",
                       !.form_data = get_default_form_data,
                       !.current_step = STEP_SETUP], o.dk, o.calls)

\* "Use Existing Content", shown enabled only when a course directory exists
OnUseExistingContent(o) ==
    IF get_existing_courses(o.dk) /= {}
    THEN Rerun([o.ss EXCEPT !.workflow_mode = "existing",
                            !.form_data = get_default_form_data,
                            !.current_step = STEP_EXISTING], o.dk, o.calls)
    ELSE o

(* ---- step 0.5: step_existing_content_selection ---- *)

TopExisting(ss, dk, cl) ==
    IF get_existing_courses(dk) = {}
    THEN Out(ss, dk, "no_courses", cl, FALSE)
    ELSE Out(ss, dk, "main", cl, FALSE)

\* "<- Back to Selection"
OnBackToSelection(o) ==
    Rerun([o.ss EXCEPT !.workflow_mode = "None",
                       !.form_data = get_default_form_data,
                       !.current_step = STEP_INITIAL], o.dk, o.calls)

\* a chain that answers the stage after the one that wrote the last document
TargetStepOnePast(dir) ==
    IF Has(dir.composited_screens) /\ dir.composited_screens[1] /= {} THEN STEP_PREVIEW
    ELSE IF Has(dir.generated_images) THEN STEP_PREVIEW
    ELSE IF Has(dir.screens) THEN STEP_IMAGES
    ELSE IF Has(dir.scenario_metadata) THEN STEP_SCREENS
    ELSE IF Has(dir.scenario_descriptions) THEN STEP_METADATA
    ELSE STEP_REVIEW

\* a chain that probes screens.json before generated_images.json
TargetStepScreensFirst(dir) ==
    IF Has(dir.composited_screens) /\ dir.composited_screens[1] /= {} THEN STEP_PREVIEW
    ELSE IF Has(dir.screens) THEN STEP_SCREENS
    ELSE IF Has(dir.generated_images) THEN STEP_IMAGES
    ELSE IF Has(dir.scenario_metadata) THEN STEP_METADATA
    ELSE IF Has(dir.scenario_descriptions) THEN STEP_SCENARIO
    ELSE STEP_REVIEW

\* the if/elif chain that detects the last completed step from the files
TargetStep(dir) ==
    IF Has(dir.composited_screens) /\ dir.composited_screens[1] /= {} THEN STEP_PREVIEW
    ELSE IF FileExists(dir, "generated_images") THEN STEP_IMAGES
    ELSE IF FileExists(dir, "screens") THEN STEP_SCREENS
    ELSE IF FileExists(dir, "scenario_metadata") THEN STEP_METADATA
    ELSE IF FileExists(dir, "scenario_descriptions") THEN STEP_SCENARIO
    ELSE STEP_REVIEW

\* "Continue ->" with the course and module chosen in the two select boxes (the
\* widget values selected_course and selected_module)
OnContinue(o, course, module) ==
    LET dir == DirOf(o.dk, ContinuePath(course, module))
        s0 == o.ss
        target == TargetStep(dir)
        s1 == [s0 EXCEPT !.form_data = dir.context[1], !.workflow_mode = "existing_module"]
        s2 == IF target >= STEP_SCENARIO /\ Has(dir.scenario_descriptions)
              THEN [s1 EXCEPT
                      !.scenario_data =
                          Some([Get(s1.scenario_data, EmptyScenario) EXCEPT
                                  !.final_scenario =
                                      Some(Get(dir.scenario_descriptions[1].scenario_description, <<>>))]),
                      !.scenarios_need_generation = Some(FALSE)]
              ELSE s1
        s3 == IF target >= STEP_METADATA /\ Has(dir.scenario_metadata)
              THEN [s2 EXCEPT !.metadata_data = dir.scenario_metadata,
                              !.metadata_need_generation = Some(FALSE)]
              ELSE s2
        s4 == IF target >= STEP_SCREENS /\ Has(dir.screens)
              THEN [s3 EXCEPT !.screen_data = dir.screens,
                              !.screens_need_generation = Some(FALSE)]
              ELSE s3
        s5 == IF target >= STEP_IMAGES
              THEN [s4 EXCEPT !.generated_images =
                                  IF Has(dir.generated_images) THEN dir.generated_images
                                  ELSE Some(<<>>)]
              ELSE s4
        \* json.load raises on a file that is not a complete document; the handler's
        \* except clause reports it and keeps what was assigned before the failing load
        failed(ss) == Out(ss, o.dk, "load_failed", o.calls, FALSE)
    IN IF ~FileExists(dir, "context") THEN Out(s0, o.dk, o.page, o.calls, FALSE)
       ELSE IF "context" \in dir.garbled THEN failed(s0)
       ELSE IF target >= STEP_SCENARIO /\ "scenario_descriptions" \in dir.garbled
       THEN failed(s1)
       ELSE IF target >= STEP_METADATA /\ "scenario_metadata" \in dir.garbled
       THEN failed(s2)
       ELSE IF target >= STEP_SCREENS /\ "screens" \in dir.garbled THEN failed(s3)
       ELSE IF target >= STEP_IMAGES /\ "generated_images" \in dir.garbled
       THEN failed(s4)
       ELSE Rerun([s5 EXCEPT !.current_step = target], o.dk, o.calls)

(* ---- step 1: step_project_setup ---- *)

TopSetup(ss, dk, cl) == Out(ss, dk, "main", cl, FALSE)

\* a variant of the test that looks at the two titles only
TitlesFilled(course_title, module_title, details) ==
    course_title /= <<>> /\ module_title /= <<>>

\* line 526: all([course_title, professional_domain, course_description,
\* module_title, key_concept, existing_challenge])
AllFilled(course_title, module_title, details) ==
    course_title /= <<>> /\ module_title /= <<>> /\ details = RequiredDetails

\* "Continue to Review ->" with the values typed into the form; with a field empty
\* the form is drawn again under st.error("Please fill in all required fields")
OnSubmitSetup(o, course_title, module_title, details) ==
    IF AllFilled(course_title, module_title, details)
    THEN Rerun([o.ss EXCEPT !.form_data = [course_title |-> Some(course_title),
                                           module_title |-> Some(module_title),
                                           details |-> details],
                            !.current_step = STEP_REVIEW], o.dk, o.calls)
    ELSE [o EXCEPT !.page = "refused"]

(* ---- step 2: step_review_export ---- *)

TopReview(ss, dk, cl) == Out(ss, dk, "main", cl, FALSE)

\* "<- Back to Project Information"
OnBackToSetup(o) == Rerun([o.ss EXCEPT !.current_step = STEP_SETUP], o.dk, o.calls)

\* "Save & Generate Scenarios"
OnSaveAndGenerateScenarios(o) ==
    Rerun([o.ss EXCEPT !.current_step = STEP_SCENARIO,
                       !.scenarios_need_generation = Some(TRUE)],
          save_to_json(o.dk, o.ss.form_data), Arm(o.calls))

\* "Start Over"
OnStartOver(o) ==
    Rerun([o.ss EXCEPT !.current_step = STEP_INITIAL,
                       !.workflow_mode = "None",
                       !.form_data = get_default_form_data], o.dk, o.calls)

(* ---- step 3: step_scenario_generation ---- *)

\* a variant of load_scenario_data that finds nothing
LoadNothing(dk, path) == EmptyScenario

\* load_scenario_data: the saved dict, {} when the file does not exist
load_scenario_data(dk, path) == Get(DirOf(dk, path).scenario_descriptions, EmptyScenario)

\* the locals scenarios and selected_scenario read from scenario_data after the top
ScenariosOf(ss) == Get(Get(ss.scenario_data, EmptyScenario).generated_scenarios, <<>>)
SelectedOf(ss) == Get(Get(ss.scenario_data, EmptyScenario).selected_scenario, PyNone)

\* the existing-scenario offer of lines 629-645
ScenarioOfferShown(ss, dk) ==
    LET existing == load_scenario_data(dk, get_scenario_filepath(ss.form_data)) IN
    /\ existing /= EmptyScenario
    /\ TruthyText(existing.final_scenario)
    /\ ss.scenarios_need_generation = Missing

TopScenario(ss, dk, cl, outcome) ==
    LET existing == load_scenario_data(dk, get_scenario_filepath(ss.form_data))
        s1 == IF ss.scenario_data = Missing \/ ss.scenario_data = Some(EmptyScenario)
              THEN [ss EXCEPT !.scenario_data = Some(existing)]
              ELSE ss
        s2 == IF s1.scenarios_need_generation = Missing
              THEN [s1 EXCEPT !.scenarios_need_generation = Some(TRUE)]
              ELSE s1
        generate == s2.scenarios_need_generation = Some(TRUE)
        s3 == IF generate
              THEN [s2 EXCEPT
                      !.scenario_data =
                          Some([s2.scenario_data[1] EXCEPT
                                  !.generated_scenarios =
                                      Some(generate_scenario_summaries_with_gpt(outcome)),
                                  !.selected_scenario = Some(PyNone)]),
                      !.scenarios_need_generation = Some(FALSE)]
              ELSE s2
        cl3 == IF generate THEN Call(cl, s1.scenarios_need_generation = Missing) ELSE cl
    IN IF "scenario_descriptions" \in DirOf(dk, get_scenario_filepath(ss.form_data)).garbled
       THEN Out(ss, dk, "crash", cl, FALSE)   \* json.load raises out of load_scenario_data
       ELSE IF ScenarioOfferShown(ss, dk)
       THEN Out(ss, dk, "offer", cl, FALSE)
       ELSE IF SelectedOf(s3) /= PyNone /\ SelectedOf(s3) >= Len(ScenariosOf(s3))
            THEN Out(s3, dk, "select_only", cl3, FALSE)   \* IndexError at scenarios[selected_scenario]
            ELSE Out(s3, dk, "main", cl3, FALSE)

\* "Select Option k+1"
OnSelectOption(o, k) ==
    IF o.page \in {"main", "select_only"}
    THEN Rerun([o.ss EXCEPT !.scenario_data =
                                Some([o.ss.scenario_data[1] EXCEPT !.selected_scenario = Some(k)])],
               o.dk, o.calls)
    ELSE o

\* a variant of the button that also empties the form
BackToReviewEmptied(o) ==
    IF o.page = "main"
    THEN Rerun([o.ss EXCEPT !.current_step = STEP_REVIEW,
                            !.form_data = get_default_form_data], o.dk, o.calls)
    ELSE o

\* "<- Back to Review"
OnBackToReview(o) ==
    IF o.page = "main"
    THEN Rerun([o.ss EXCEPT !.current_step = STEP_REVIEW], o.dk, o.calls)
    ELSE o

\* "Save & Continue": both writes go to scenario_descriptions.json of the same
\* directory; with nothing selected the page is drawn again under
\* st.error("Please select a scenario before saving.")
OnSaveScenario(o) ==
    LET fd == o.ss.form_data
        edited_scenario == ScenariosOf(o.ss)[SelectedOf(o.ss) + 1]
        saved == [o.ss.scenario_data[1] EXCEPT !.final_scenario = Some(edited_scenario)]
        dk1 == WriteDoc(o.dk, get_scenario_filepath(fd), "scenario_descriptions", saved)
        dk2 == WriteDoc(dk1, StepPath(fd), "scenario_descriptions",
                        [EmptyScenario EXCEPT !.scenario_description = Some(edited_scenario)])
    IN IF o.page /= "main"
       THEN o
       ELSE IF SelectedOf(o.ss) /= PyNone
            THEN Rerun([o.ss EXCEPT !.scenario_data = Some(saved),
                                    !.current_step = STEP_METADATA,
                                    !.metadata_need_generation = Some(TRUE)],
                       dk2, Arm(o.calls))
            ELSE [o EXCEPT !.page = "refused"]

\* "Generate New Options"
OnGenerateNewOptions(o) ==
    IF o.page = "main"
    THEN Rerun([o.ss EXCEPT
                  !.scenario_data =
                      IF Has(o.ss.scenario_data)
                      THEN Some([o.ss.scenario_data[1] EXCEPT !.generated_scenarios = Missing,
                                                                !.selected_scenario = Missing,
                                                                !.final_scenario = Missing])
                      ELSE Missing,
                  !.scenarios_need_generation = Some(TRUE)],
               o.dk, Arm(o.calls))
    ELSE o

(* ---- step 4: step_scenario_metadata ---- *)

DEFAULT_NUM_SCREENS == 5
DEFAULT_ASPECT_RATIO == "16:9"
DEFAULT_VISUAL_STYLE == "A vibrant, semi-realistic digital illustration"
BlankActor == [name |-> "", role |-> "", purpose |-> "", appearance |-> ""]

\* what the provider may answer to the metadata prompt: a text with a JSON object
\* ("json"), a text without any {...} ("nomatch"), or the call or json.loads raises
MetadataOutcomes ==
    { [kind |-> "json",
       value |-> [num_screens |-> Some(2), aspect_ratio |-> Some("16:9"), visual_style |-> Missing,
                  actors |-> Some(<< [name |-> "Ana", role |-> "analyst", purpose |-> "decide",
                                      appearance |-> "tall" ] >>)]],
      [kind |-> "nomatch", value |-> EmptyMetadata],
      [kind |-> "raise", value |-> EmptyMetadata] }

\* a variant that stores whatever came back also when no {...} was found
StoreUnparsed(ss, key, flag, outcome) ==
    IF outcome.kind = "json"
    THEN [ss EXCEPT ![key] = Some(outcome.value), ![flag] = Some(FALSE)]
    ELSE [ss EXCEPT ![key] = Some(outcome.value)]

\* lines 963-973 (metadata) and 1254-1264 (screens): the answer is stored and the
\* flag cleared only under "if json_match"; the else branch is st.error(...) alone
StoreParsed(ss, key, flag, outcome) ==
    IF outcome.kind = "json"
    THEN [ss EXCEPT ![key] = Some(outcome.value), ![flag] = Some(FALSE)]
    ELSE ss

\* lines 980-982 and 1026: the actor list shown, written back on every render
ShownActors(md) ==
    IF Get(md.actors, <<>>) = <<>> THEN <<BlankActor>> ELSE md.actors[1]

TopMetadata(ss, dk, cl, outcome) ==
    LET s1 == IF ss.metadata_need_generation = Missing
              THEN [ss EXCEPT !.metadata_need_generation = Some(TRUE)]
              ELSE ss
        existing_metadata == DirOf(dk, StepPath(ss.form_data)).scenario_metadata
        s2 == IF s1.metadata_data = Missing \/ s1.metadata_data = Some(EmptyMetadata)
              THEN [s1 EXCEPT !.metadata_data = Some(Get(existing_metadata, EmptyMetadata))]
              ELSE s1
        offer == /\ Has(existing_metadata)
                 /\ Get(existing_metadata[1].actors, <<>>) /= <<>>
                 /\ s2.metadata_need_generation = Missing
        generate == s2.metadata_need_generation = Some(TRUE)
        cl3 == IF generate THEN Call(cl, ss.metadata_need_generation = Missing) ELSE cl
        s3 == IF generate
              THEN StoreParsed(s2, "metadata_data", "metadata_need_generation", outcome)
              ELSE s2
        s4 == [s3 EXCEPT !.metadata_data =
                             Some([s3.metadata_data[1] EXCEPT
                                     !.actors = Some(ShownActors(s3.metadata_data[1]))])]
    IN IF s1.scenario_data = Missing
       THEN Out(s1, dk, "crash", cl, FALSE)          \* AttributeError at line 868
       ELSE IF offer THEN Out(s2, dk, "offer", cl, FALSE)
       ELSE IF generate /\ outcome.kind = "raise"
            THEN Out(s2, dk, "returned", cl3, FALSE)  \* except: st.error(...); return
            ELSE Out(s4, dk, "main", cl3, FALSE)

\* a variant of the button that also asks for new scenarios
BackToScenarioArmed(o) ==
    IF o.page = "main"
    THEN Rerun([o.ss EXCEPT !.current_step = STEP_SCENARIO,
                            !.scenarios_need_generation = Some(TRUE)], o.dk, o.calls)
    ELSE o

\* "<- Back to Scenario"
OnBackToScenario(o) ==
    IF o.page = "main"
    THEN Rerun([o.ss EXCEPT !.current_step = STEP_SCENARIO], o.dk, o.calls)
    ELSE o

\* "Save & Continue" with the values of the three metadata widgets
OnSaveMetadata(o) ==
    LET md == o.ss.metadata_data[1]
        saved == [md EXCEPT !.num_screens = Some(Get(md.num_screens, DEFAULT_NUM_SCREENS)),
                            !.aspect_ratio = Some(Get(md.aspect_ratio, DEFAULT_ASPECT_RATIO)),
                            !.visual_style = Some(DEFAULT_VISUAL_STYLE),
                            !.actors = Some(ShownActors(md))]
    IN IF o.page = "main"
       THEN Rerun([o.ss EXCEPT !.metadata_data = Some(saved),
                               !.current_step = STEP_SCREENS,
                               !.screens_need_generation = Some(TRUE)],
                  WriteDoc(o.dk, StepPath(o.ss.form_data), "scenario_metadata", saved),
                  Arm(o.calls))
       ELSE o

\* "Regenerate" of the metadata stage
OnRegenerateMetadata(o) ==
    IF o.page = "main"
    THEN Rerun([o.ss EXCEPT !.metadata_need_generation = Some(TRUE)], o.dk,
               Arm(o.calls))
    ELSE o

(* ---- step 5: step_screen_generation ---- *)

Screen(n, d, c) == [screen_number |-> n, image_description |-> d, caption |-> c]

\* what the provider may answer to the screens prompt: a JSON object with a screens
\* array (numbered as asked, or numbered from 0), no {...} at all, or a raise
ScreenOutcomes ==
    { [kind |-> "json",
       value |-> [screens |-> Some(<< Screen(1, "a1", "ca1"), Screen(2, "a2", "ca2") >>)]],
      [kind |-> "json", value |-> [screens |-> Some(<< Screen(0, "b1", "cb1") >>)]],
      [kind |-> "nomatch", value |-> EmptyScreenData],
      [kind |-> "raise", value |-> EmptyScreenData] }

ScreensOf(ss) == Get(Get(ss.screen_data, EmptyScreenData).screens, <<>>)
ImagesOf(ss) == Get(ss.generated_images, <<>>)

TopScreens(ss, dk, cl, outcome) ==
    LET existing_screen_data == DirOf(dk, StepPath(ss.form_data)).screens
        s1 == IF ss.screens_need_generation = Missing
              THEN [ss EXCEPT !.screens_need_generation = Some(TRUE)]
              ELSE ss
        s2 == IF s1.screen_data = Missing \/ s1.screen_data = Some(EmptyScreenData)
              THEN [s1 EXCEPT !.screen_data = Some(Get(existing_screen_data, EmptyScreenData))]
              ELSE s1
        generate == s2.screens_need_generation = Some(TRUE)
        cl3 == IF generate THEN Call(cl, ss.screens_need_generation = Missing) ELSE cl
        s3 == IF generate
              THEN StoreParsed(s2, "screen_data", "screens_need_generation", outcome)
              ELSE s2
    IN IF s2.scenario_data = Missing \/ s2.metadata_data = Missing
       THEN Out(s2, dk, "crash", cl, FALSE)          \* AttributeError at lines 1132-1133
       ELSE IF generate /\ outcome.kind = "raise"
            THEN Out(s2, dk, "returned", cl3, FALSE)  \* except: st.error(...); return
            ELSE Out(s3, dk, "main", cl3, FALSE)

\* "<- Back to Metadata"
OnBackToMetadata(o) ==
    IF o.page = "main"
    THEN Rerun([o.ss EXCEPT !.current_step = STEP_METADATA], o.dk, o.calls)
    ELSE o

\* "Save & Generate Images"
OnSaveScreens(o) ==
    IF o.page = "main"
    THEN Rerun([o.ss EXCEPT !.current_step = STEP_IMAGES],
               WriteDoc(o.dk, StepPath(o.ss.form_data), "screens", o.ss.screen_data[1]),
               o.calls)
    ELSE o

\* "Regenerate" of the screen stage
OnRegenerateScreens(o) ==
    IF o.page = "main"
    THEN Rerun([o.ss EXCEPT !.screens_need_generation = Some(TRUE)], o.dk,
               Arm(o.calls))
    ELSE o

(* ---- step 6: step_image_generation ---- *)

\* generated_images[i].get("image_b64") for the 0-based index i
HasImage(images, i) == i < Len(images) /\ Has(images[i + 1].image_b64)

\* images_ready of lines 1317-1324 (and ready of step_final_preview)
\* a variant of the gate that also asks for every slot to be accepted
images_accepted(screens, images) ==
    /\ screens /= <<>>
    /\ Len(images) >= Len(screens)
    /\ \A i \in 0..(Len(screens) - 1) :
          Has(images[i + 1].image_b64) /\ images[i + 1].accepted = Some(TRUE)

images_ready(screens, images) ==
    /\ screens /= <<>>
    /\ Len(images) >= Len(screens)
    /\ \A i \in 0..(Len(screens) - 1) : Has(images[i + 1].image_b64)

\* a step that never writes generated_images.json through the helper
PersistSkipped(ss, dk) == dk

\* _persist_generated_images
_persist_generated_images(ss, dk) ==
    IF ss.generated_images = Missing THEN dk
    ELSE WriteDoc(dk, _get_text_output_dir(ss.form_data), "generated_images",
                  ss.generated_images[1])

\* lines 1507-1518: pad the list with {} up to the index, then store the new image
StoreImage(images, idx, b64) ==
    LET padded == IF idx >= Len(images)
                  THEN images \o [k \in 1..(idx - Len(images) + 1) |-> EmptyImage]
                  ELSE images
    IN [padded EXCEPT ![idx + 1] = [image_b64 |-> Some(b64), accepted |-> Some(FALSE),
                                    screen_number |-> Some(idx + 1)]]

\* the size argument of client.images.generate (lines 1496-1500)
ImageSize(aspect_ratio) ==
    IF aspect_ratio = "1:1" THEN "1024x1024"
    ELSE IF aspect_ratio = "16:9" THEN "1536x1024"
    ELSE "1024x1536"

\* the image the provider returns for a prompt and a size: identified by the image
\* description the prompt starts with, and by the size
ImageFor(screen, aspect_ratio) ==
    [prompt |-> screen.image_description, size |-> ImageSize(aspect_ratio)]

\* click is "generate" when the run was caused by the "Generate Image" button;
\* outcome is "ok" or "raise" (the image provider)
TopImages(ss, dk, cl, outcome, click) ==
    LET screens == ScreensOf(ss)
        s1 == [ss EXCEPT !.current_image_index = Some(Get(ss.current_image_index, 0)),
                         !.generated_images = Some(Get(ss.generated_images, <<>>))]
        idx == s1.current_image_index[1]
        auto_regenerate == s1.regenerate_image = Some(idx)
        needs_generation == ~HasImage(ImagesOf(s1), idx) \/ auto_regenerate
        s2 == IF auto_regenerate THEN [s1 EXCEPT !.regenerate_image = Missing] ELSE s1
        \* line 1478: metadata_data.get("aspect_ratio", "16:9"), inside the try
        aspect_ratio == Get(Get(s2.metadata_data, EmptyMetadata).aspect_ratio, "16:9")
        s3 == [s2 EXCEPT !.generated_images =
                             Some(StoreImage(ImagesOf(s2), idx,
                                             ImageFor(screens[idx + 1], aspect_ratio)))]
    IN IF ss.screen_data = Missing THEN Out(ss, dk, "crash", cl, FALSE)
       ELSE IF screens = <<>> THEN Out(s1, dk, "no_screens", cl, FALSE)
       ELSE IF idx >= Len(screens) THEN Out(s1, dk, "all_done", cl, FALSE)
       ELSE IF ~needs_generation THEN Out(s2, dk, "main", cl, FALSE)
       ELSE IF ~auto_regenerate /\ click /= "generate"
            THEN Out(s2, dk, "need_gen", cl, FALSE)
       ELSE IF outcome = "ok" /\ Has(s2.metadata_data)
            THEN Out(s3, _persist_generated_images(s3, dk), "rerun", cl, TRUE)
       ELSE Out(s2, dk, IF auto_regenerate THEN "gen_failed" ELSE "need_gen", cl, FALSE)

\* "Preview Final Slideshow", rendered first and only when images_ready
OnPreview(o) ==
    IF /\ o.page \in {"all_done", "need_gen", "gen_failed", "main"}
       /\ images_ready(ScreensOf(o.ss), ImagesOf(o.ss))
    THEN Rerun([o.ss EXCEPT !.preview_index = Some(0),
                            !.should_save_composited = TRUE,
                            !.current_step = STEP_PREVIEW], o.dk, o.calls)
    ELSE o

\* "<- Back to Screens", shown when there are no screens or the index is past the end
OnBackToScreens(o) ==
    IF o.page \in {"no_screens", "all_done"}
    THEN Rerun([o.ss EXCEPT !.current_step = STEP_SCREENS], o.dk, o.calls)
    ELSE o

\* the "Jump to Screen" radio: the option picked by the user in this run
OnJump(o, k) ==
    IF /\ o.page \in {"need_gen", "gen_failed", "main"}
       /\ k \in 0..(Len(ScreensOf(o.ss)) - 1)
       /\ k /= o.ss.current_image_index[1]
    THEN Rerun([o.ss EXCEPT !.current_image_index = Some(k)], o.dk, o.calls)
    ELSE o

\* "Previous", disabled at index 0
OnPrevious(o) ==
    IF o.page = "main" /\ o.ss.current_image_index[1] > 0
    THEN Rerun([o.ss EXCEPT !.current_image_index = Some(@[1] - 1)], o.dk, o.calls)
    ELSE o

\* "Accept & Continue" / "Accept & Finish": the try block and its finally
OnAccept(o) ==
    LET idx == o.ss.current_image_index[1]
        path == StepPath(o.ss.form_data)
        dk1 == WriteDoc(o.dk, path, "screens", o.ss.screen_data[1])
        dk2 == WriteDoc(dk1, path, "generated_images", ImagesOf(o.ss))
        s1 == [o.ss EXCEPT !.generated_images =
                               Some([ImagesOf(o.ss) EXCEPT ![idx + 1].accepted = Some(TRUE)])]
        s2 == IF idx < Len(ScreensOf(o.ss)) - 1
              THEN [s1 EXCEPT !.current_image_index = Some(idx + 1)]
              ELSE s1
    IN IF o.page = "main"
       THEN Rerun(s2, _persist_generated_images(s2, dk2), o.calls)
       ELSE o

\* a variant of the button that empties every slot
RegenerateEveryImage(o) ==
    LET idx == o.ss.current_image_index[1]
        s1 == [o.ss EXCEPT !.generated_images =
                               Some([k \in 1..Len(ImagesOf(o.ss)) |->
                                        [ImagesOf(o.ss)[k] EXCEPT !.image_b64 = Missing]]),
                           !.regenerate_image = Some(idx)]
    IN IF o.page = "main"
       THEN Rerun(s1, _persist_generated_images(s1, o.dk), o.calls)
       ELSE o

\* "Regenerate Image"
OnRegenerateImage(o) ==
    LET idx == o.ss.current_image_index[1]
        s1 == [o.ss EXCEPT !.generated_images =
                               Some([ImagesOf(o.ss) EXCEPT ![idx + 1].image_b64 = Missing]),
                           !.regenerate_image = Some(idx)]
    IN IF o.page = "main"
       THEN Rerun(s1, _persist_generated_images(s1, o.dk), o.calls)
       ELSE o

(* ---- step 7: step_final_preview ---- *)

\* a variant of the pass that stops at the first screen that fails
SaveCompositedUntilFailure(dk, fd, screens, images, failing) ==
    LET path == _get_text_output_dir(fd)
        old == Get(DirOf(dk, path).composited_screens, {})
        written == { i \in 0..(Len(screens) - 1) :
                       HasImage(images, i) /\ \A j \in failing : i < j }
        files == old \cup { i + 1 : i \in written }
    IN [p \in DOMAIN dk \cup {path} |->
          IF p = path THEN [DirOf(dk, path) EXCEPT !.composited_screens = Some(files)]
          ELSE dk[p]]

\* _save_composited_images: one file screen_<i+1>.png per screen that has an image;
\* the folder is modelled by the numbers of the files in it. failing is the set of
\* screens whose decoding, compositing or saving raises: the try / except is inside
\* the loop, so such a screen is reported with st.error and the loop goes on
_save_composited_images(dk, fd, screens, images, failing) ==
    LET path == _get_text_output_dir(fd)
        old == Get(DirOf(dk, path).composited_screens, {})
        written == { i \in 0..(Len(screens) - 1) : HasImage(images, i) /\ i \notin failing }
        files == old \cup { i + 1 : i \in written }
    IN [p \in DOMAIN dk \cup {path} |->
          IF p = path THEN [DirOf(dk, path) EXCEPT !.composited_screens = Some(files)]
          ELSE dk[p]]

TopPreview(ss, dk, cl, failing) ==
    LET screens == ScreensOf(ss)
        images == ImagesOf(ss)
        s1 == IF ss.preview_index = Missing \/ Get(ss.preview_index, 0) >= Len(screens)
              THEN [ss EXCEPT !.preview_index = Some(0)]
              ELSE ss
        s2 == [s1 EXCEPT !.should_save_composited = FALSE]
    IN IF ss.screen_data = Missing THEN Out(ss, dk, "crash", cl, FALSE)
       ELSE IF screens = <<>> THEN Out(s1, dk, "crash", cl, FALSE)   \* IndexError at screens[idx]
       ELSE IF s1.should_save_composited
            THEN Out(s2, _save_composited_images(dk, ss.form_data, screens, images, failing),
                     "main", cl, FALSE)
            ELSE Out(s1, dk, "main", cl, FALSE)

\* the two arrows of the slideshow: on_click callbacks _go_prev / _go_next, which run
\* before the script body of the same run
_go_prev(ss) ==
    IF Get(ss.preview_index, 0) > 0
    THEN [ss EXCEPT !.preview_index = Some(@[1] - 1)]
    ELSE ss

_go_next(ss) ==
    IF Get(ss.preview_index, 0) < Len(ScreensOf(ss)) - 1
    THEN [ss EXCEPT !.preview_index = Some(@[1] + 1)]
    ELSE ss

\* "Back to Image Generation": the on_click lambda of key back_to_images
back_to_images(ss) == [ss EXCEPT !.current_step = STEP_IMAGES]


----------------------------------------------------------------------------
(* The wizard: one action per script run.  A render is the run of a pending *)
(* st.rerun(); a click is the run caused by a button of the page shown.     *)

ImageOutcomes == {"ok", "raise"}

\* the state a script run leaves behind
Do(o) ==
    /\ session_state' = o.ss
    /\ disk' = o.dk
    /\ page' = o.page
    /\ rerun' = o.rr
    /\ calls' = o.calls
    /\ UNCHANGED <<sessions, gpt_content, gpt_scenarios, parked>>

\* the user looks at a page of the given step
At(step, pages) == ~rerun /\ session_state.current_step = step /\ page \in pages

Pending(step) == rerun /\ session_state.current_step = step

RenderInitial == Pending(STEP_INITIAL) /\ Do(TopInitial(session_state, disk, calls))
RenderExisting == Pending(STEP_EXISTING) /\ Do(TopExisting(session_state, disk, calls))
RenderSetup == Pending(STEP_SETUP) /\ Do(TopSetup(session_state, disk, calls))
RenderReview == Pending(STEP_REVIEW) /\ Do(TopReview(session_state, disk, calls))
RenderScenario ==
    /\ Pending(STEP_SCENARIO)
    /\ \E outcome \in WizardScenarioOutcomes : Do(TopScenario(session_state, disk, calls, outcome))
RenderMetadata ==
    /\ Pending(STEP_METADATA)
    /\ \E outcome \in MetadataOutcomes : Do(TopMetadata(session_state, disk, calls, outcome))
RenderScreens ==
    /\ Pending(STEP_SCREENS)
    /\ \E outcome \in ScreenOutcomes : Do(TopScreens(session_state, disk, calls, outcome))
RenderImages ==
    /\ Pending(STEP_IMAGES)
    /\ \E outcome \in ImageOutcomes : Do(TopImages(session_state, disk, calls, outcome, "none"))
RenderPreview == Pending(STEP_PREVIEW) /\ Do(TopPreview(session_state, disk, calls, {}))

\* the same run with the compositing of some screens raising
RenderPreviewFailing ==
    /\ Pending(STEP_PREVIEW)
    /\ session_state.should_save_composited
    /\ \E failing \in SUBSET (0..(Len(ScreensOf(session_state)) - 1)) :
          /\ failing /= {}
          /\ Do(TopPreview(session_state, disk, calls, failing))

CreateNewProject ==
    /\ At(STEP_INITIAL, {"main"})
    /\ Do(OnCreateNewProject(TopInitial(session_state, disk, calls)))

UseExistingContent ==
    /\ At(STEP_INITIAL, {"main"})
    /\ get_existing_courses(disk) /= {}
    /\ Do(OnUseExistingContent(TopInitial(session_state, disk, calls)))

BackToSelection ==
    /\ At(STEP_EXISTING, {"main", "no_courses", "load_failed"})
    /\ Do(OnBackToSelection(TopExisting(session_state, disk, calls)))

Continue ==
    /\ At(STEP_EXISTING, {"main", "load_failed"})
    /\ \E course \in get_existing_courses(disk) :
         \E module \in get_existing_modules(disk, course) :
            Do(OnContinue(TopExisting(session_state, disk, calls), course, module))

SubmitSetup ==
    /\ At(STEP_SETUP, {"main", "refused"})
    /\ \E course_title \in CourseTitles, module_title \in ModuleTitles :
          Do(OnSubmitSetup(TopSetup(session_state, disk, calls),
                           course_title, module_title, RequiredDetails))

\* the submit button with one of the six required fields left empty, or all of them
SubmitSetupInvalid ==
    /\ At(STEP_SETUP, {"main", "refused"})
    /\ \E course_title \in CourseTitles \cup {<<>>}, module_title \in ModuleTitles \cup {<<>>},
          details \in {RequiredDetails \ {d} : d \in RequiredDetails} \cup {RequiredDetails, {}} :
          /\ \/ course_title = <<>> /\ module_title /= <<>> /\ details = RequiredDetails
             \/ course_title /= <<>> /\ module_title = <<>> /\ details = RequiredDetails
             \/ course_title /= <<>> /\ module_title /= <<>> /\ Cardinality(details) = 3
             \/ course_title = <<>> /\ module_title = <<>> /\ details = {}
          /\ Do(OnSubmitSetup(TopSetup(session_state, disk, calls),
                              course_title, module_title, details))

BackToSetup ==
    At(STEP_REVIEW, {"main"}) /\ Do(OnBackToSetup(TopReview(session_state, disk, calls)))

SaveAndGenerateScenarios ==
    /\ At(STEP_REVIEW, {"main"})
    /\ Do(OnSaveAndGenerateScenarios(TopReview(session_state, disk, calls)))

StartOver ==
    At(STEP_REVIEW, {"main"}) /\ Do(OnStartOver(TopReview(session_state, disk, calls)))

SelectOption ==
    /\ At(STEP_SCENARIO, {"main", "select_only", "refused"})
    /\ \E k \in OptionsClicked \cap 0..(Len(ScenariosOf(session_state)) - 1),
          outcome \in WizardScenarioOutcomes :
          Do(OnSelectOption(TopScenario(session_state, disk, calls, outcome), k))

BackToReview ==
    /\ At(STEP_SCENARIO, {"main", "refused"})
    /\ \E outcome \in WizardScenarioOutcomes :
          Do(OnBackToReview(TopScenario(session_state, disk, calls, outcome)))

SaveScenario ==
    /\ At(STEP_SCENARIO, {"main", "refused"})
    /\ SelectedOf(session_state) /= PyNone
    /\ \E outcome \in WizardScenarioOutcomes :
          Do(OnSaveScenario(TopScenario(session_state, disk, calls, outcome)))

\* "Save & Continue" while no option is selected
SaveScenarioUnselected ==
    /\ At(STEP_SCENARIO, {"main", "refused"})
    /\ SelectedOf(session_state) = PyNone
    /\ \E outcome \in WizardScenarioOutcomes :
          Do(OnSaveScenario(TopScenario(session_state, disk, calls, outcome)))

GenerateNewOptions ==
    /\ At(STEP_SCENARIO, {"main", "refused"})
    /\ \E outcome \in WizardScenarioOutcomes :
          Do(OnGenerateNewOptions(TopScenario(session_state, disk, calls, outcome)))

BackToScenario ==
    /\ At(STEP_METADATA, {"main"})
    /\ \E outcome \in MetadataOutcomes :
          Do(OnBackToScenario(TopMetadata(session_state, disk, calls, outcome)))

SaveMetadata ==
    /\ At(STEP_METADATA, {"main"})
    /\ \E outcome \in MetadataOutcomes :
          Do(OnSaveMetadata(TopMetadata(session_state, disk, calls, outcome)))

RegenerateMetadata ==
    /\ At(STEP_METADATA, {"main"})
    /\ \E outcome \in MetadataOutcomes :
          Do(OnRegenerateMetadata(TopMetadata(session_state, disk, calls, outcome)))

BackToMetadata ==
    /\ At(STEP_SCREENS, {"main"})
    /\ \E outcome \in ScreenOutcomes :
          Do(OnBackToMetadata(TopScreens(session_state, disk, calls, outcome)))

SaveScreens ==
    /\ At(STEP_SCREENS, {"main"})
    /\ \E outcome \in ScreenOutcomes :
          Do(OnSaveScreens(TopScreens(session_state, disk, calls, outcome)))

RegenerateScreens ==
    /\ At(STEP_SCREENS, {"main"})
    /\ \E outcome \in ScreenOutcomes :
          Do(OnRegenerateScreens(TopScreens(session_state, disk, calls, outcome)))

\* the Preview button is the first statement of the step: nothing else of the run happens
Preview ==
    /\ At(STEP_IMAGES, {"all_done", "need_gen", "gen_failed", "main"})
    /\ images_ready(ScreensOf(session_state), ImagesOf(session_state))
    /\ Do(OnPreview(Out(session_state, disk, page, calls, FALSE)))

BackToScreens ==
    /\ At(STEP_IMAGES, {"no_screens", "all_done"})
    /\ Do(OnBackToScreens(TopImages(session_state, disk, calls, "ok", "none")))

\* the radio is read before the index is used: nothing after it happens in the run
Jump ==
    /\ At(STEP_IMAGES, {"need_gen", "gen_failed", "main"})
    /\ \E k \in 0..(Len(ScreensOf(session_state)) - 1) :
          /\ k /= session_state.current_image_index[1]
          /\ Do(OnJump(Out(session_state, disk, page, calls, FALSE), k))

GenerateImage ==
    /\ At(STEP_IMAGES, {"need_gen"})
    /\ \E outcome \in ImageOutcomes :
          Do(TopImages(session_state, disk, calls, outcome, "generate"))

Previous ==
    /\ At(STEP_IMAGES, {"main"})
    /\ session_state.current_image_index[1] > 0
    /\ Do(OnPrevious(TopImages(session_state, disk, calls, "ok", "none")))

Accept ==
    /\ At(STEP_IMAGES, {"main"})
    /\ Do(OnAccept(TopImages(session_state, disk, calls, "ok", "none")))

RegenerateImage ==
    /\ At(STEP_IMAGES, {"main"})
    /\ Do(OnRegenerateImage(TopImages(session_state, disk, calls, "ok", "none")))

PreviewPrev ==
    /\ At(STEP_PREVIEW, {"main"})
    /\ session_state.preview_index[1] > 0
    /\ Do(TopPreview(_go_prev(session_state), disk, calls, {}))

PreviewNext ==
    /\ At(STEP_PREVIEW, {"main"})
    /\ session_state.preview_index[1] < Len(ScreensOf(session_state)) - 1
    /\ Do(TopPreview(_go_next(session_state), disk, calls, {}))

BackToImages ==
    /\ At(STEP_PREVIEW, {"main"})
    /\ \E outcome \in ImageOutcomes :
          Do(TopImages(back_to_images(session_state), disk, calls, outcome, "none"))

\* the browser tab is closed or reloaded: a new session over the same data directory
NewSession ==
    /\ ~rerun
    /\ sessions < MaxSessions
    /\ sessions' = sessions + 1
    /\ session_state' = FreshSession
    /\ page' = "rerun"
    /\ rerun' = TRUE
    /\ calls' = NoCalls
    /\ UNCHANGED <<disk, gpt_content, gpt_scenarios, parked>>

EmptyDisk == [p \in {} |-> EmptyDir]

Init ==
    /\ session_state = FreshSession
    /\ disk = EmptyDisk
    /\ page = "rerun"
    /\ rerun = TRUE
    /\ calls = NoCalls
    /\ sessions = 1
    /\ gpt_content = ProviderFault
    /\ gpt_scenarios = Missing
    /\ parked = NotOpened

Next ==
    \/ RenderInitial \/ RenderExisting \/ RenderSetup \/ RenderReview \/ RenderScenario
    \/ RenderMetadata \/ RenderScreens \/ RenderImages \/ RenderPreview
    \/ CreateNewProject \/ UseExistingContent \/ BackToSelection \/ Continue
    \/ SubmitSetup \/ BackToSetup \/ SaveAndGenerateScenarios \/ StartOver
    \/ SelectOption \/ BackToReview \/ SaveScenario \/ GenerateNewOptions
    \/ BackToScenario \/ SaveMetadata \/ RegenerateMetadata
    \/ BackToMetadata \/ SaveScreens \/ RegenerateScreens
    \/ Preview \/ BackToScreens \/ Jump \/ GenerateImage \/ Previous \/ Accept
    \/ RegenerateImage
    \/ PreviewPrev \/ PreviewNext \/ BackToImages
    \/ NewSession

Spec == Init /\ [][Next]_vars


----------------------------------------------------------------------------
(* One project from Setup to Preview with the Setup form filled freely:     *)
(* titles with letters of both cases, spaces, hyphens, underscores and       *)
(* punctuation, required fields left empty, and "Save & Continue" pressed    *)
(* before an option is selected.                                             *)

\* longest title typed into the Setup form, in characters
MaxTitle == 2

\* what the user may type as a course title
CourseTitleInputs ==
    UNION { [1..n -> {"a", "B", " ", "-", "_", "!"}] : n \in 1..MaxTitle }

\* what the user may type as a module title
ModuleTitleInputs == { <<"m">>, <<"M", " ">>, <<"!">> }

\* the submit button of Setup with all six fields filled
SubmitTitles ==
    /\ At(STEP_SETUP, {"main", "refused"})
    /\ \E course_title \in CourseTitleInputs, module_title \in ModuleTitleInputs :
          Do(OnSubmitSetup(TopSetup(session_state, disk, calls),
                           course_title, module_title, RequiredDetails))

NextTitles ==
    \/ RenderInitial \/ CreateNewProject \/ RenderSetup \/ SubmitTitles
    \/ SubmitSetupInvalid
    \/ RenderReview \/ SaveAndGenerateScenarios
    \/ RenderScenario \/ SelectOption \/ SaveScenario \/ SaveScenarioUnselected
    \/ RenderMetadata \/ SaveMetadata
    \/ RenderScreens \/ SaveScreens
    \/ RenderImages \/ GenerateImage \/ Accept \/ Preview
    \/ RenderPreview

SpecTitles == Init /\ [][NextTitles]_vars

----------------------------------------------------------------------------
(* Resuming an existing module: the data directory holds one project whose  *)
(* documents exist in any combination (files can be removed by hand), each  *)
(* document as the wizard writes it.                                         *)

ProjectForm ==
    [course_title |-> Some(CHOOSE t \in CourseTitles : TRUE),
     module_title |-> Some(CHOOSE t \in ModuleTitles : TRUE),
     details |-> RequiredDetails]

ProjectPath == ContextPath(ProjectForm)

\* the documents of the project as the stages write them
ProjectDocs ==
    [context |-> ProjectForm,
     scenario_descriptions |-> [EmptyScenario EXCEPT !.scenario_description = Some(<<"z">>)],
     scenario_metadata |-> [num_screens |-> Some(2), aspect_ratio |-> Some("1:1"),
                            visual_style |-> Some(DEFAULT_VISUAL_STYLE),
                            actors |-> Some(<<BlankActor>>)],
     screens |-> [screens |-> Some(<< Screen(1, "a1", "ca1"), Screen(2, "a2", "ca2") >>)],
     generated_images |-> << [image_b64 |-> Some([prompt |-> "a1", size |-> "1024x1024"]),
                              accepted |-> Some(FALSE),
                              screen_number |-> Some(1)] >>]

JsonDocuments ==
    {"context", "scenario_descriptions", "scenario_metadata", "screens", "generated_images"}

\* a project directory for every set of existing documents and every state of the
\* composited_screens folder (absent, empty, one file)
ResumeDirs ==
    { [d \in DOMAIN EmptyDir |->
          IF d = "composited_screens" THEN folder
          ELSE IF d = "garbled" THEN {}
          ELSE IF d \in present THEN Some(ProjectDocs[d]) ELSE Missing] :
        present \in SUBSET JsonDocuments, folder \in {Missing, Some({}), Some({1})} }

InitResume ==
    /\ session_state = FreshSession
    /\ disk \in { [p \in {ProjectPath} |-> dir] : dir \in ResumeDirs }
    /\ page = "rerun"
    /\ rerun = TRUE
    /\ calls = NoCalls
    /\ sessions = 1
    /\ gpt_content = ProviderFault
    /\ gpt_scenarios = Missing
    /\ parked = NotOpened

NextResume ==
    RenderInitial \/ UseExistingContent \/ RenderExisting \/ Continue \/ BackToSelection

SpecResume == InitResume /\ [][NextResume]_vars

----------------------------------------------------------------------------
(* The scenario parser on its own: a provider outcome is drawn, the function *)
(* is applied to it.                                                         *)

InitParse ==
    /\ session_state = FreshSession
    /\ disk = EmptyDisk
    /\ page = "rerun"
    /\ rerun = TRUE
    /\ calls = NoCalls
    /\ sessions = 1
    /\ gpt_content \in ScenarioOutcomes
    /\ gpt_scenarios = Missing
    /\ parked = NotOpened

GenerateScenarios ==
    /\ gpt_scenarios = Missing
    /\ gpt_scenarios' = Some(generate_scenario_summaries_with_gpt(gpt_content))
    /\ UNCHANGED <<session_state, disk, page, rerun, calls, sessions, gpt_content, parked>>

NextParse == GenerateScenarios

SpecParse == InitParse /\ [][NextParse]_vars


----------------------------------------------------------------------------
(* Saves that do not run to their end.  open(path, 'w') has truncated the     *)
(* file when the write of json.dump raises (a full disk, a lost volume).  The *)
(* project of the resume model is on disk; the user resumes it, saves, comes  *)
(* back in a new session and resumes again.                                   *)

\* "Save & Generate Scenarios" with the write of save_to_json failing: the except
\* clause of lines 602-603 reports the error and assigns nothing
OnSaveAndGenerateScenariosFailing(o) ==
    Out(o.ss, Garble(o.dk, ContextPath(o.ss.form_data), "context"), o.page, o.calls, FALSE)

\* "Save & Continue" with the write of save_scenario_data failing: final_scenario is
\* assigned at line 820 before the write, the except clause of lines 839-840 reports
OnSaveScenarioFailing(o) ==
    LET edited_scenario == ScenariosOf(o.ss)[SelectedOf(o.ss) + 1]
        saved == [o.ss.scenario_data[1] EXCEPT !.final_scenario = Some(edited_scenario)]
    IN IF o.page = "main" /\ SelectedOf(o.ss) /= PyNone
       THEN Out([o.ss EXCEPT !.scenario_data = Some(saved)],
                Garble(o.dk, get_scenario_filepath(o.ss.form_data), "scenario_descriptions"),
                o.page, o.calls, FALSE)
       ELSE o

SaveContextFails ==
    /\ At(STEP_REVIEW, {"main"})
    /\ Do(OnSaveAndGenerateScenariosFailing(TopReview(session_state, disk, calls)))

SaveScenarioFails ==
    /\ At(STEP_SCENARIO, {"main"})
    /\ SelectedOf(session_state) /= PyNone
    /\ \E outcome \in WizardScenarioOutcomes :
          Do(OnSaveScenarioFailing(TopScenario(session_state, disk, calls, outcome)))

NextFaults ==
    \/ RenderInitial \/ UseExistingContent \/ RenderExisting \/ Continue \/ BackToSelection
    \/ RenderReview \/ SaveAndGenerateScenarios \/ SaveContextFails
    \/ RenderScenario \/ SelectOption \/ SaveScenario \/ SaveScenarioFails
    \/ NewSession

SpecFaults == InitResume /\ [][NextFaults]_vars

----------------------------------------------------------------------------
(* Two browser sessions on one project.  Streamlit keeps one session state   *)
(* per browser session and runs the script of either on its events; the     *)
(* data directory is shared.  Both sessions resume the project at the image  *)
(* stage and work on its images.                                             *)

\* the other session acts next
SwitchSession ==
    /\ session_state' = parked.ss
    /\ page' = parked.page
    /\ rerun' = parked.rr
    /\ calls' = parked.calls
    /\ parked' = [ss |-> session_state, page |-> page, rr |-> rerun, calls |-> calls]
    /\ UNCHANGED <<disk, sessions, gpt_content, gpt_scenarios>>

InitShared ==
    /\ session_state = FreshSession
    /\ disk = [p \in {ProjectPath} |->
                 [d \in DOMAIN EmptyDir |->
                    IF d = "composited_screens" THEN Missing
                    ELSE IF d = "garbled" THEN {}
                    ELSE Some(ProjectDocs[d])]]
    /\ page = "rerun"
    /\ rerun = TRUE
    /\ calls = NoCalls
    /\ sessions = 1
    /\ gpt_content = ProviderFault
    /\ gpt_scenarios = Missing
    /\ parked = NotOpened

NextShared ==
    \/ RenderInitial \/ UseExistingContent \/ RenderExisting \/ Continue
    \/ RenderImages \/ GenerateImage \/ Jump \/ Accept \/ RegenerateImage
    \/ SwitchSession

SpecShared == InitShared /\ [][NextShared]_vars

----------------------------------------------------------------------------
(* The ScenarioSelection stage with each of its three "Select Option" buttons: *)
(* a new project is taken to the stage, saved, and the stage is entered again  *)
(* from MetadataExtraction.                                                    *)

SelectAnyOption ==
    /\ At(STEP_SCENARIO, {"main", "select_only", "refused"})
    /\ \E k \in 0..2, outcome \in WizardScenarioOutcomes :
          Do(OnSelectOption(TopScenario(session_state, disk, calls, outcome), k))

NextSelect ==
    \/ RenderInitial \/ CreateNewProject \/ RenderSetup \/ SubmitSetup \/ RenderReview
    \/ SaveAndGenerateScenarios \/ RenderScenario \/ SelectAnyOption \/ SaveScenario
    \/ GenerateNewOptions \/ RenderMetadata \/ BackToScenario \/ NewSession

SpecSelect == Init /\ [][NextSelect]_vars

----------------------------------------------------------------------------
(* The image stage of a project whose saved metadata holds one of several     *)
(* aspect_ratio tokens (the metadata prompt asks for "16:9, 9:16, 1:1"; the   *)
(* stored value is whatever string the provider or the user wrote).           *)

AspectRatios == {"1:1", "16:9", "9:16", "4:3"}

InitSize ==
    /\ session_state = FreshSession
    /\ \E aspect_ratio \in {Missing} \cup { Some(t) : t \in AspectRatios } :
          disk = [p \in {ProjectPath} |->
                    [d \in DOMAIN EmptyDir |->
                       IF d \in {"composited_screens", "generated_images"} THEN Missing
                       ELSE IF d = "garbled" THEN {}
                       ELSE IF d = "scenario_metadata"
                            THEN Some([ProjectDocs[d] EXCEPT !.aspect_ratio = aspect_ratio])
                       ELSE Some(ProjectDocs[d])]]
    /\ page = "rerun"
    /\ rerun = TRUE
    /\ calls = NoCalls
    /\ sessions = 1
    /\ gpt_content = ProviderFault
    /\ gpt_scenarios = Missing
    /\ parked = NotOpened

NextSize ==
    \/ RenderInitial \/ UseExistingContent \/ RenderExisting \/ Continue
    \/ RenderScreens \/ SaveScreens
    \/ RenderImages \/ GenerateImage \/ Jump \/ Accept \/ RegenerateImage

SpecSize == InitSize /\ [][NextSize]_vars

----------------------------------------------------------------------------
(* The image stage and the slideshow of a saved project, with compositing that can
   fail on single screens: the specification of the claims on the preview *)

NextPreview ==
    \/ RenderInitial \/ UseExistingContent \/ RenderExisting \/ Continue
    \/ RenderScreens \/ SaveScreens
    \/ RenderImages \/ GenerateImage \/ Jump \/ Previous \/ Accept \/ RegenerateImage
    \/ Preview \/ RenderPreview \/ RenderPreviewFailing
    \/ PreviewPrev \/ PreviewNext \/ BackToImages
    \/ NewSession

SpecPreview == InitSize /\ [][NextPreview]_vars

-----------------------------------------------------------------------------
(* The extraction of the JSON object from the response of the provider in the  *)
(* metadata and screen stages.  A response is a sequence of tokens: an opening *)
(* brace, a closing brace, or a stretch of text without braces (prose outside  *)
(* an object, well-formed members inside one).                                 *)

MaxText == 6
Tokens == {"{", "}", "t"}
TextsUpTo(n) == UNION { [1..k -> Tokens] : k \in 0..n }

\* the nesting depth after the first k tokens
RECURSIVE Depth(_, _)
Depth(text, k) ==
    IF k = 0 THEN 0
    ELSE Depth(text, k - 1)
         + (IF text[k] = "{" THEN 1 ELSE IF text[k] = "}" THEN -1 ELSE 0)

\* json.loads accepts the text: one object from its first to its last token (a
\* closing brace before the end leaves "extra data", a missing one is an error)
json_loads_ok(text) ==
    /\ Len(text) >= 2
    /\ text[1] = "{"
    /\ text[Len(text)] = "}"
    /\ Depth(text, Len(text)) = 0
    /\ \A k \in 1..(Len(text) - 1) : Depth(text, k) > 0

\* re.search(r'\{.*\}', content, re.DOTALL).group(): the leftmost opening brace and,
\* the star being greedy and the dot matching newlines, everything up to the last
\* closing brace after it; Missing when there is no such pair
re_search(content) ==
    LET opens == { i \in 1..Len(content) : content[i] = "{" }
        first == CHOOSE i \in opens : \A j \in opens : i <= j
        closes == { j \in 1..Len(content) : content[j] = "}" /\ j > first }
        last == CHOOSE j \in closes : \A k \in closes : k <= j
    IN IF opens = {} THEN Missing
       ELSE IF closes = {} THEN Missing
       ELSE Some(SubSeq(content, first, last))

\* the outcome of the generation block for a response: the object is stored, or
\* "Failed to parse" is shown, or json.loads raises into the except clause
ExtractJson(content) ==
    LET json_match == re_search(content)
    IN IF json_match = Missing THEN [kind |-> "nomatch", value |-> <<>>]
       ELSE IF json_loads_ok(json_match[1]) THEN [kind |-> "json", value |-> json_match[1]]
       ELSE [kind |-> "raise", value |-> <<>>]

InitExtract ==
    /\ session_state = FreshSession
    /\ disk = EmptyDisk
    /\ page = "rerun"
    /\ rerun = TRUE
    /\ calls = NoCalls
    /\ sessions = 1
    /\ gpt_content \in { [ok |-> TRUE, content |-> t] : t \in TextsUpTo(MaxText) }
    /\ gpt_scenarios = Missing
    /\ parked = NotOpened

ParseJsonResponse ==
    /\ gpt_scenarios = Missing
    /\ gpt_scenarios' = Some(ExtractJson(gpt_content.content))
    /\ UNCHANGED <<session_state, disk, page, rerun, calls, sessions, gpt_content, parked>>

NextExtract == ParseJsonResponse

SpecExtract == InitExtract /\ [][NextExtract]_vars

-----------------------------------------------------------------------------
(* Two projects in one session: a saved project is resumed at the screen stage, *)
(* the user walks back to Review, starts over and sets up a project with        *)
(* another course title.                                                        *)

OtherCourseTitles == { <<"n">> }

SubmitOtherProject ==
    /\ At(STEP_SETUP, {"main", "refused"})
    /\ \E course_title \in OtherCourseTitles, module_title \in ModuleTitles :
          Do(OnSubmitSetup(TopSetup(session_state, disk, calls),
                           course_title, module_title, RequiredDetails))

InitCarry ==
    /\ session_state = FreshSession
    /\ disk = [p \in {ProjectPath} |->
                 [d \in DOMAIN EmptyDir |->
                    IF d \in {"context", "scenario_descriptions", "scenario_metadata"}
                    THEN Some(ProjectDocs[d])
                    ELSE IF d = "garbled" THEN {}
                    ELSE Missing]]
    /\ page = "rerun"
    /\ rerun = TRUE
    /\ calls = NoCalls
    /\ sessions = 1
    /\ gpt_content = ProviderFault
    /\ gpt_scenarios = Missing
    /\ parked = NotOpened

NextCarry ==
    \/ RenderInitial \/ UseExistingContent \/ RenderExisting \/ Continue
    \/ RenderScreens \/ BackToMetadata \/ RenderMetadata \/ BackToScenario
    \/ RenderScenario \/ BackToReview \/ RenderReview \/ StartOver
    \/ CreateNewProject \/ RenderSetup \/ SubmitOtherProject
    \/ SaveAndGenerateScenarios \/ SelectOption \/ SaveScenario \/ SaveMetadata
    \/ SaveScreens \/ RenderImages

SpecCarry == InitCarry /\ [][NextCarry]_vars

-----------------------------------------------------------------------------
(* The scenario stage of a resumed project: the three "Select Option" buttons *)
(* are rendered whatever the number of candidates is.                         *)

NextResumeSelect ==
    \/ RenderInitial \/ UseExistingContent \/ RenderExisting \/ Continue
    \/ RenderScenario \/ SelectAnyOption

SpecResumeSelect == InitResume /\ [][NextResumeSelect]_vars

-----------------------------------------------------------------------------
(* A resumed project that is only looked at: the stage of the resume is *)
(* rendered and the user walks back with the Back buttons.              *)

NextRehydrate ==
    \/ RenderInitial \/ UseExistingContent \/ RenderExisting \/ Continue
    \/ RenderReview \/ RenderScenario \/ RenderMetadata \/ RenderScreens
    \/ RenderImages \/ RenderPreview
    \/ BackToReview \/ BackToScenario \/ BackToMetadata \/ BackToImages
    \/ PreviewPrev \/ PreviewNext

SpecRehydrate == InitResume /\ [][NextRehydrate]_vars

-----------------------------------------------------------------------------
(* The edit box of the scenario stage.  The text of the box is an input of the *)
(* run: what the selected candidate holds, or what the user has typed.         *)

EditedTexts == { <<"e">> }
UpdatedTexts == { <<"u">> }

\* the texts the box can hold in a run that finds the session ss
BoxTexts(ss) ==
    EditedTexts \cup
    (IF SelectedOf(ss) /= PyNone /\ SelectedOf(ss) < Len(ScenariosOf(ss))
     THEN { ScenariosOf(ss)[SelectedOf(ss) + 1] } ELSE {})

\* a variant of the write-back that leaves the candidate as it was
EditFinalOnly(o, edited_scenario) ==
    IF /\ o.page = "main"
       /\ SelectedOf(o.ss) /= PyNone
       /\ edited_scenario /= ScenariosOf(o.ss)[SelectedOf(o.ss) + 1]
    THEN [o EXCEPT !.ss.scenario_data =
                      Some([o.ss.scenario_data[1] EXCEPT
                              !.final_scenario = Some(edited_scenario)])]
    ELSE o

\* lines 704-720: a text of the box that differs from the selected candidate replaces
\* the candidate and becomes final_scenario
EditScenario(o, edited_scenario) ==
    IF /\ o.page = "main"
       /\ SelectedOf(o.ss) /= PyNone
       /\ edited_scenario /= ScenariosOf(o.ss)[SelectedOf(o.ss) + 1]
    THEN [o EXCEPT !.ss.scenario_data =
                      Some([o.ss.scenario_data[1] EXCEPT
                              !.generated_scenarios =
                                  Some([ScenariosOf(o.ss) EXCEPT
                                          ![SelectedOf(o.ss) + 1] = edited_scenario]),
                              !.final_scenario = Some(edited_scenario)])]
    ELSE o

\* "Update with AI" with instructions given and the provider answering updated_scenario
OnUpdateWithAI(o, updated_scenario) ==
    IF o.page = "main" /\ SelectedOf(o.ss) /= PyNone
    THEN Rerun([o.ss EXCEPT !.scenario_data =
                               Some([o.ss.scenario_data[1] EXCEPT
                                       !.generated_scenarios =
                                           Some([ScenariosOf(o.ss) EXCEPT
                                                   ![SelectedOf(o.ss) + 1] = updated_scenario]),
                                       !.final_scenario = Some(updated_scenario)])],
               o.dk, o.calls)
    ELSE o

\* the user leaves the box after typing: the script runs with the new text
EditText ==
    /\ At(STEP_SCENARIO, {"main"})
    /\ SelectedOf(session_state) /= PyNone
    /\ \E edited_scenario \in EditedTexts, outcome \in WizardScenarioOutcomes :
          Do(EditScenario(TopScenario(session_state, disk, calls, outcome), edited_scenario))

UpdateWithAI ==
    /\ At(STEP_SCENARIO, {"main"})
    /\ SelectedOf(session_state) /= PyNone
    /\ \E edited_scenario \in BoxTexts(session_state), updated_scenario \in UpdatedTexts,
          outcome \in WizardScenarioOutcomes :
          Do(OnUpdateWithAI(EditScenario(TopScenario(session_state, disk, calls, outcome),
                                         edited_scenario), updated_scenario))

SaveEditedScenario ==
    /\ At(STEP_SCENARIO, {"main", "refused"})
    /\ SelectedOf(session_state) /= PyNone
    /\ \E edited_scenario \in BoxTexts(session_state), outcome \in WizardScenarioOutcomes :
          Do(OnSaveScenario(EditScenario(TopScenario(session_state, disk, calls, outcome),
                                         edited_scenario)))

NextEdit ==
    \/ RenderInitial \/ CreateNewProject \/ RenderSetup \/ SubmitSetup \/ RenderReview
    \/ SaveAndGenerateScenarios \/ RenderScenario \/ SelectAnyOption
    \/ EditText \/ UpdateWithAI \/ SaveEditedScenario \/ SaveScenarioUnselected
    \/ RenderMetadata \/ BackToScenario

SpecEdit == Init /\ [][NextEdit]_vars

-----------------------------------------------------------------------------
(* The router of app.py.  current_step is in tenths, as everywhere in the model. *)

\* the functions that steps.py defines for the stages
StepFunctions ==
    { "step_initial_selection", "step_existing_content_selection", "step_project_setup",
      "step_review_export", "step_scenario_generation", "step_scenario_metadata",
      "step_screen_generation", "step_image_generation", "step_final_preview" }

\* main(): the if / elif chain over st.session_state.current_step and the function
\* each branch calls; "none" when no branch matches
main(current_step) ==
    IF current_step = 0 THEN "step_initial_selection"
    ELSE IF current_step = 5 THEN "step_existing_content_selection"
    ELSE IF current_step = 10 THEN "step_course_info"
    ELSE IF current_step = 20 THEN "step_project_info"
    ELSE IF current_step = 30 THEN "step_audience_info"
    ELSE IF current_step = 40 THEN "step_style_pack"
    ELSE IF current_step = 50 THEN "step_review_export"
    ELSE IF current_step = 60 THEN "step_next_phase"
    ELSE IF current_step = 70 THEN "step_scenario_generation"
    ELSE IF current_step = 80 THEN "step_screen_management"
    ELSE IF current_step = 90 THEN "step_image_generation"
    ELSE IF current_step = 100 THEN "step_final_review"
    ELSE "none"

\* the function of the stage that the transitions of steps.py enter with a value of
\* current_step (the docstrings "Step k: ..." of the step functions and the
\* assignments current_step = k of the buttons)
StageFunction(current_step) ==
    IF current_step = STEP_INITIAL THEN "step_initial_selection"
    ELSE IF current_step = STEP_EXISTING THEN "step_existing_content_selection"
    ELSE IF current_step = STEP_SETUP THEN "step_project_setup"
    ELSE IF current_step = STEP_REVIEW THEN "step_review_export"
    ELSE IF current_step = STEP_SCENARIO THEN "step_scenario_generation"
    ELSE IF current_step = STEP_METADATA THEN "step_scenario_metadata"
    ELSE IF current_step = STEP_SCREENS THEN "step_screen_generation"
    ELSE IF current_step = STEP_IMAGES THEN "step_image_generation"
    ELSE "step_final_preview"

-----------------------------------------------------------------------------
(* Properties of resume detection (SpecResume) *)

ProjectDir == DirOf(disk, ProjectPath)

\* the fixed order of the documents and, for each, the stage whose save writes it
DocumentOrder ==
    << "context", "scenario_descriptions", "scenario_metadata", "screens",
       "generated_images", "composited_screens" >>
StageWriting ==
    << STEP_REVIEW, STEP_SCENARIO, STEP_METADATA, STEP_SCREENS, STEP_IMAGES, STEP_PREVIEW >>

\* the document exists (the folder: exists and is not empty)
Exists(dir, d) ==
    IF d = "composited_screens" THEN Has(dir[d]) /\ dir[d][1] /= {} ELSE Has(dir[d])

Existing(dir) == { i \in 1..Len(DocumentOrder) : Exists(dir, DocumentOrder[i]) }

\* the existing documents are the first k of the order, k >= 1
IsPrefix(dir) == \E k \in 1..Len(DocumentOrder) : Existing(dir) = 1..k

Last(S) == CHOOSE m \in S : \A n \in S : n <= m

\* a step of the model in which Continue left the selection page for a stage
Resumed ==
    /\ session_state.current_step = STEP_EXISTING
    /\ session_state'.current_step \notin {STEP_EXISTING, STEP_INITIAL}

\* C1 (as amended): when the existing documents are a prefix of the fixed order,
\* Continue resumes at the stage that writes the last existing document: Review for
\* context.json, ScenarioSelection for scenario_descriptions.json, and so on up to
\* Preview for a non-empty composited_screens folder.
C1_ResumeAtLastDocument ==
    [][ (Resumed /\ IsPrefix(ProjectDir))
          => session_state'.current_step = StageWriting[Last(Existing(ProjectDir))] ]_vars

\* C1 witness: context.json and scenario_descriptions.json exist, nothing else, and
\* Continue has set the step to ScenarioSelection.
C1_Witness ==
    /\ Existing(ProjectDir) = {1, 2}
    /\ rerun
    /\ session_state.workflow_mode = "existing_module"
    /\ session_state.current_step = STEP_SCENARIO

\* the stage the claim names for a prefix of k documents: Review for context.json
\* alone, otherwise the stage after the one that wrote the last document
StageOnePast ==
    << STEP_REVIEW, STEP_METADATA, STEP_SCREENS, STEP_IMAGES, STEP_PREVIEW, STEP_PREVIEW >>

\* C1 as stated: for a prefix of the fixed order the resume point is one past the last
\* existing document; with context.json and scenario_descriptions.json it is
\* MetadataExtraction.
C1_ResumeOnePast ==
    [][ (Resumed /\ IsPrefix(ProjectDir))
          => session_state'.current_step = StageOnePast[Last(Existing(ProjectDir))] ]_vars

\* C2: for every set of existing documents, gaps included, Continue goes to the stage
\* of the most advanced existing document, to Review when only context.json exists,
\* and leaves the selection page for no stage when context.json does not exist.
C2_MostAdvancedFirst ==
    [][ Resumed =>
          /\ Has(ProjectDir.context)
          /\ session_state'.current_step =
                 StageWriting[Last(Existing(ProjectDir) \cup {1})] ]_vars

\* C2 witness: a set with gaps (context.json and screens.json only) resumed at
\* ScreenScripting.
C2_Witness ==
    /\ Existing(ProjectDir) = {1, 4}
    /\ rerun
    /\ session_state.workflow_mode = "existing_module"
    /\ session_state.current_step = STEP_SCREENS

----------------------------------------------------------------------------
(* Properties of the scenario parser (SpecParse) *)

\* the lines of a response that start a candidate: a marker with text after it
CandidateLines(content) ==
    { i \in 1..Len(content) :
        StartsWithMarker(content[i]) /\ RemoveMarkers(content[i]) /= <<>> }

\* C9: the result has exactly 3 entries for every response and for a failed call; the
\* entries past the candidates found are the placeholder, candidates past the third
\* are dropped, and a failed call gives the three fixed failure texts.
C9_ExactlyThree ==
    Has(gpt_scenarios) =>
        LET result == gpt_scenarios[1]
            found == Cardinality(CandidateLines(gpt_content.content))
        IN /\ Len(result) = 3
           /\ ~gpt_content.ok => result = FAILED_SCENARIOS
           /\ gpt_content.ok =>
                 \A i \in 1..3 : (result[i] = PAD_SCENARIO) <=> (i > found)

\* C9 witness: a response with four candidates has been parsed.
C9_Witness ==
    /\ Has(gpt_scenarios)
    /\ gpt_content.ok
    /\ Cardinality(CandidateLines(gpt_content.content)) = 4
    /\ Len(gpt_scenarios[1]) = 3


----------------------------------------------------------------------------
(* Properties of the wizard (Spec) *)

Step == session_state.current_step
Flags(ss) ==
    << ss.scenarios_need_generation, ss.metadata_need_generation, ss.screens_need_generation >>

\* C3: a forward save arms the flag of the stage it enters, the first render of that
\* stage calls the generator once and clears the flag, and no later render calls it
\* again before a flag is armed anew: never two generator calls since the last arming,
\* and a stage page that is shown has its flag cleared.
C3_OncePerForwardEntry ==
    /\ calls.generate_text <= 1
    /\ (~rerun /\ page = "main" /\ Step = STEP_SCENARIO)
          => session_state.scenarios_need_generation = Some(FALSE)
    /\ (~rerun /\ page = "main" /\ Step = STEP_METADATA)
          => session_state.metadata_need_generation = Some(FALSE)
    /\ (~rerun /\ page = "main" /\ Step = STEP_SCREENS)
          => session_state.screens_need_generation = Some(FALSE)

\* a click on one of the five Back buttons: the step goes back by one stage
BackClicked ==
    /\ ~rerun
    /\ <<Step, session_state'.current_step>> \in
          { <<STEP_SCENARIO, STEP_REVIEW>>, <<STEP_METADATA, STEP_SCENARIO>>,
            <<STEP_SCREENS, STEP_METADATA>>, <<STEP_IMAGES, STEP_SCREENS>>,
            <<STEP_PREVIEW, STEP_IMAGES>> }

\* C4: a Back button changes current_step and nothing else: scenario_data,
\* metadata_data, screen_data, the images and the three flags are as before the click,
\* and no generator call is made by the click.
C4_BackIsPureStageChange ==
    [][ BackClicked =>
          /\ session_state'.scenario_data = session_state.scenario_data
          /\ session_state'.metadata_data = session_state.metadata_data
          /\ session_state'.screen_data = session_state.screen_data
          /\ ImagesOf(session_state') = ImagesOf(session_state)
          /\ Flags(session_state') = Flags(session_state)
          /\ calls' = calls ]_vars

\* C5: whenever the wizard is at the Preview stage, every screen of the current
\* sequence has a non-empty image.
C5_PreviewGate ==
    Step = STEP_PREVIEW =>
        images_ready(ScreensOf(session_state), ImagesOf(session_state))

\* C6: a run of the image stage that changes the image array (a generation, Accept,
\* Regenerate Image) leaves generated_images.json of the project equal to the whole
\* array of the session.
C6_ImageWriteThrough ==
    [][ ( /\ Step = STEP_IMAGES
          /\ session_state'.current_step = STEP_IMAGES
          /\ ImagesOf(session_state') /= ImagesOf(session_state) )
          => DirOf(disk', _get_text_output_dir(session_state'.form_data)).generated_images
                = session_state'.generated_images ]_vars

\* C6 witness: an image has been generated and accepted, another generated after it,
\* and the document equals the array.
C6_Witness ==
    /\ Step = STEP_IMAGES
    /\ Len(ImagesOf(session_state)) = 2
    /\ ImagesOf(session_state)[1].accepted = Some(TRUE)
    /\ Has(ImagesOf(session_state)[2].image_b64)
    /\ DirOf(disk, _get_text_output_dir(session_state.form_data)).generated_images
          = session_state.generated_images

\* the screens were generated in this session and every screen has its image
FullPass ==
    /\ Step \in {STEP_IMAGES, STEP_PREVIEW}
    /\ session_state.screens_need_generation = Some(FALSE)
    /\ images_ready(ScreensOf(session_state), ImagesOf(session_state))

\* C7: after a full generation pass the image and the screen at position i both carry
\* screen_number i+1, whatever screen array the generator returned.
C7_PositionalAlignment ==
    FullPass =>
        \A i \in 1..Len(ScreensOf(session_state)) :
            /\ ImagesOf(session_state)[i].screen_number = Some(i)
            /\ ScreensOf(session_state)[i].screen_number = i

\* C8: every non-empty image of the session was generated for the screen that is now
\* at its position; no image of a replaced screen sequence remains.
C8_ImageBelongsToScreen ==
    \A i \in 1..Len(ImagesOf(session_state)) :
        Has(ImagesOf(session_state)[i].image_b64) =>
            /\ i <= Len(ScreensOf(session_state))
            /\ ImagesOf(session_state)[i].image_b64[1].prompt
                  = ScreensOf(session_state)[i].image_description

\* a scenario saved earlier exists on disk for the project of the session
SavedScenarioOnDisk ==
    LET saved == load_scenario_data(disk, get_scenario_filepath(session_state.form_data))
    IN TruthyText(saved.final_scenario) \/ TruthyText(saved.scenario_description)

\* C10: when ScenarioSelection is rendered while a saved scenario exists on disk and
\* the session holds no scenario data yet, the offer (use existing / generate new) is
\* shown and no generator call is made by that render.
C10_ResumeShortcutOffered ==
    [][ ( /\ rerun
          /\ Step = STEP_SCENARIO
          /\ SavedScenarioOnDisk
          /\ session_state.scenario_data = Missing )
          => (page' = "offer" /\ calls' = calls) ]_vars

\* the offer of step_scenario_generation is never on the screen
OfferNeverShown == page /= "offer"


\* saved metadata with a non-empty actor list exists on disk for the project of the
\* session
SavedMetadataOnDisk ==
    LET existing_metadata == DirOf(disk, StepPath(session_state.form_data)).scenario_metadata
    IN /\ Has(existing_metadata)
       /\ Get(existing_metadata[1].actors, <<>>) /= <<>>

\* C11: when MetadataExtraction is rendered while saved metadata with actors exists on
\* disk and the session holds no metadata yet (nothing was decided in this session),
\* the offer (use existing / generate new) is shown and no generator call is made by
\* that render.
C11_MetadataReuseOffered ==
    [][ ( /\ rerun
          /\ Step = STEP_METADATA
          /\ session_state.scenario_data /= Missing
          /\ SavedMetadataOnDisk
          /\ session_state.metadata_data = Missing )
          => (page' = "offer" /\ calls' = calls) ]_vars

\* a run of MetadataExtraction or ScreenScripting that called the generator and found
\* no {...} in the answer: the page is drawn and the stage's flag is still set
ParseFailed ==
    /\ rerun
    /\ page' = "main"
    /\ \/ Step = STEP_METADATA /\ session_state'.metadata_need_generation = Some(TRUE)
       \/ Step = STEP_SCREENS /\ session_state'.screens_need_generation = Some(TRUE)

\* the values the stage holds when it reaches the generator call: the session's own,
\* or the saved document when the session has none
MetadataBeforeAttempt ==
    IF session_state.metadata_data \in {Missing, Some(EmptyMetadata)}
    THEN Some(Get(DirOf(disk, StepPath(session_state.form_data)).scenario_metadata,
                  EmptyMetadata))
    ELSE session_state.metadata_data

ScreensBeforeAttempt ==
    IF session_state.screen_data \in {Missing, Some(EmptyScreenData)}
    THEN Some(Get(DirOf(disk, StepPath(session_state.form_data)).screens, EmptyScreenData))
    ELSE session_state.screen_data

ScenarioSaved == Step = STEP_SCENARIO /\ Step' = STEP_METADATA

\* C13: after a successful "Save & Continue" in ScenarioSelection the full candidate
\* set (generated_scenarios, selected_scenario, final_scenario) and the summary with
\* the final scenario text are both in the project's storage, the stage is
\* MetadataExtraction and metadata_need_generation is true.
C13_TwoDocumentsSaved ==
    [][ ScenarioSaved =>
          LET scenario_data == session_state'.scenario_data[1]
              full == DirOf(disk', get_scenario_filepath(session_state'.form_data)).scenario_descriptions
              summary == DirOf(disk', StepPath(session_state'.form_data)).scenario_descriptions
          IN /\ session_state'.metadata_need_generation = Some(TRUE)
             /\ \/ /\ Has(summary)
                   /\ summary[1].scenario_description = scenario_data.final_scenario
                \/ /\ Has(summary)
                   /\ summary[1].final_scenario = scenario_data.final_scenario
             /\ Has(full)
             /\ full[1].generated_scenarios = scenario_data.generated_scenarios
             /\ full[1].selected_scenario = scenario_data.selected_scenario
             /\ full[1].final_scenario = scenario_data.final_scenario ]_vars

\* what does hold after the save: the stage, the flag and the summary; the saved
\* document has none of the three keys of the candidate set
SummaryAloneSaved ==
    [][ ScenarioSaved =>
          LET scenario_data == session_state'.scenario_data[1]
              summary == DirOf(disk', StepPath(session_state'.form_data)).scenario_descriptions
          IN /\ session_state'.metadata_need_generation = Some(TRUE)
             /\ TruthyText(scenario_data.final_scenario)
             /\ summary = Some([EmptyScenario EXCEPT
                                  !.scenario_description = scenario_data.final_scenario]) ]_vars

\* context.json of the session's project holds the ProjectContext of the session
ContextOnDisk ==
    DirOf(disk, ContextPath(session_state.form_data)).context = Some(session_state.form_data)

\* C14: whenever the stage is Review, the submitted ProjectContext is already in
\* context.json of the project's directory.
C14_ContextSavedAtReview == Step = STEP_REVIEW => ContextOnDisk

\* context.json is written by "Save & Generate Scenarios" of Review: from
\* ScenarioSelection on, the project has a context.json
ContextSavedAfterReview ==
    Step \in {STEP_SCENARIO, STEP_METADATA, STEP_SCREENS, STEP_IMAGES, STEP_PREVIEW} =>
        Has(DirOf(disk, ContextPath(session_state.form_data)).context)

\* C15: a Setup submit with a required field empty, and "Save & Continue" of
\* ScenarioSelection with no option selected, change nothing in the session
\* (current_step, ProjectContext, scenario_data, flags) and nothing on disk; the page
\* is drawn again with the error message.
C15_RefusedWithoutSideEffects ==
    [][ (SubmitSetupInvalid \/ SaveScenarioUnselected) =>
          /\ UNCHANGED <<session_state, disk>>
          /\ page' = "refused"
          /\ ~rerun' ]_vars

\* ScenarioSelection shows its error message: candidates are there, none is selected,
\* nothing was saved
C15_Witness ==
    /\ Step = STEP_SCENARIO
    /\ page = "refused"
    /\ ScenariosOf(session_state) /= <<>>
    /\ SelectedOf(session_state) = PyNone
    /\ session_state.metadata_need_generation = Missing
    /\ ~Has(DirOf(disk, StepPath(session_state.form_data)).scenario_descriptions)

\* the Setup form shows its error message
SetupRefused == Step = STEP_SETUP /\ page = "refused" /\ session_state.form_data = get_default_form_data

\* C16: the documents of one project are all in one directory: the actions of the
\* wizard on one project never create a second directory under data/.
C16_SingleDirectory == Cardinality(DOMAIN disk) <= 1

\* the titles of the session both keep a character when cleaned
TitlesNamed ==
    /\ CleanName(Get(session_state.form_data.course_title, <<>>)) /= <<>>
    /\ CleanName(Get(session_state.form_data.module_title, <<>>)) /= <<>>

\* with such titles the four derivations agree and there is one directory
SingleDirectoryWhenNamed ==
    TitlesNamed =>
        /\ Cardinality(DOMAIN disk) <= 1
        /\ ContextPath(session_state.form_data) = StepPath(session_state.form_data)
        /\ get_scenario_filepath(session_state.form_data) = StepPath(session_state.form_data)
        /\ _get_text_output_dir(session_state.form_data) = StepPath(session_state.form_data)

\* the display name under which the listings show a directory
Listed(dirname) == Title(ReplaceChar(dirname, "_", " "))

\* a fresh session on the selection page of existing content picks the listed names
\* of directory p and presses "Continue": both names are listed, the path resolved
\* from them is p, and the session holds the context.json saved in p
Rehydrated(p) ==
    LET s0 == [FreshSession EXCEPT !.workflow_mode = "existing",
                                   !.current_step = STEP_EXISTING]
        o == OnContinue(TopExisting(s0, disk, NoCalls), Listed(p[1]), Listed(p[2]))
    IN /\ Listed(p[1]) \in get_existing_courses(disk)
       /\ Listed(p[2]) \in get_existing_modules(disk, Listed(p[1]))
       /\ ContinuePath(Listed(p[1]), Listed(p[2])) = p
       /\ o.ss.workflow_mode = "existing_module"
       /\ o.ss.form_data = disk[p].context[1]

\* directories with a context.json whose two components are not empty
SavedProjects ==
    { p \in DOMAIN disk : Has(disk[p].context) /\ p[1] /= <<>> /\ p[2] /= <<>> }

\* C17: every project whose context.json was saved can be resumed: its course and
\* module are listed, and "Continue" on the listed names resolves to its directory and
\* loads its context.json.
C17_SavedProjectsRehydrate == \A p \in SavedProjects : Rehydrated(p)

\* projects whose directory names hold no upper-case letter can be resumed
LowerCaseProjectsRehydrate ==
    \A p \in SavedProjects :
        (\A i \in 1..2 : \A k \in 1..Len(p[i]) : p[i][k] \notin UpperCase) => Rehydrated(p)

\* the component described by the path rule: the characters of the title other than
\* letters, digits, space, hyphen and underscore are removed, the spaces at the end
\* are dropped, every space left becomes an underscore
Resolve(title) ==
    LET Kept(c) == c \in LowerCase \cup UpperCase \cup Digits \cup {" ", "-", "_"}
        kept == SelectSeq(title, Kept)
        Ends == {0} \cup { i \in 1..Len(kept) : kept[i] /= " " }
        n == CHOOSE i \in Ends : \A j \in Ends : j <= i
    IN [i \in 1..n |-> IF kept[i] = " " THEN "_" ELSE kept[i]]

IntroToDataAnalysis ==
    <<"I", "n", "t", "r", "o", " ", "t", "o", " ", "D", "a", "t", "a", " ", "A",
    "n", "a", "l", "y", "s", "i", "s">>

EthicalDecisionMaking ==
    <<"E", "t", "h", "i", "c", "a", "l", " ", "D", "e", "c", "i", "s", "i", "o",
    "n", "-", "M", "a", "k", "i", "n", "g">>

\* C18: the directory of a project is a function of its two titles alone: each
\* component is Resolve of the title, for save_to_json, get_scenario_filepath and the
\* paths built in the steps, and for _sanitize_name whenever that component is not
\* empty; the documents written with these paths are all in that one directory; and
\* ("Intro to Data Analysis", "Ethical Decision-Making") gives
\* Intro_to_Data_Analysis/Ethical_Decision-Making.
C18_PathResolution ==
    LET fd == session_state.form_data
        course_title == Get(fd.course_title, <<>>)
        module_title == Get(fd.module_title, <<>>)
        path == << Resolve(course_title), Resolve(module_title) >>
    IN /\ ContextPath([fd EXCEPT !.course_title = Some(IntroToDataAnalysis),
                                  !.module_title = Some(EthicalDecisionMaking)])
            = << <<"I", "n", "t", "r", "o", "_", "t", "o", "_", "D", "a", "t", "a", "_", "A",
                 "n", "a", "l", "y", "s", "i", "s">>,
                 <<"E", "t", "h", "i", "c", "a", "l", "_", "D", "e", "c", "i", "s", "i", "o",
                 "n", "-", "M", "a", "k", "i", "n", "g">> >>
       /\ (Has(fd.course_title) /\ Has(fd.module_title)) =>
             /\ ContextPath(fd) = path
             /\ get_scenario_filepath(fd) = path
             /\ StepPath(fd) = path
             /\ path[1] /= <<>> => _sanitize_name(course_title, <<"x">>) = path[1]
             /\ path[2] /= <<>> => _sanitize_name(module_title, <<"x">>) = path[2]
             /\ \A p \in DOMAIN disk :
                   \/ p = path
                   \/ /\ disk[p].context = Missing
                      /\ disk[p].scenario_descriptions = Missing
                      /\ disk[p].scenario_metadata = Missing
                      /\ disk[p].screens = Missing

\* the documents of a project typed as " a" / "M " are in the directory _a/M
C18_Witness ==
    /\ session_state.form_data.course_title = Some(<<" ", "a">>)
    /\ session_state.form_data.module_title = Some(<<"M", " ">>)
    /\ << <<"_", "a">>, <<"M">> >> \in DOMAIN disk
    /\ Has(disk[<< <<"_", "a">>, <<"M">> >>].screens)

\* both titles of the session are filled and clean to the empty string
TitlesCleanToEmpty ==
    /\ Has(session_state.form_data.course_title)
    /\ Has(session_state.form_data.module_title)
    /\ CleanName(session_state.form_data.course_title[1]) = <<>>
    /\ CleanName(session_state.form_data.module_title[1]) = <<>>

\* C19: when both titles clean to the empty string, every path derivation gives the
\* directory unknown_course/unknown_module, and the documents are written there.
C19_EmptyNameFallback ==
    TitlesCleanToEmpty =>
        LET fd == session_state.form_data
            sentinel == << UNKNOWN_COURSE, UNKNOWN_MODULE >>
        IN /\ ContextPath(fd) = sentinel
           /\ get_scenario_filepath(fd) = sentinel
           /\ StepPath(fd) = sentinel
           /\ _get_text_output_dir(fd) = sentinel
           /\ DOMAIN disk \subseteq {sentinel}

\* what the derivations give for such titles: two empty components, except
\* _get_text_output_dir, which gives course/module
EmptyNameComponents ==
    TitlesCleanToEmpty =>
        LET fd == session_state.form_data
        IN /\ ContextPath(fd) = << <<>>, <<>> >>
           /\ get_scenario_filepath(fd) = << <<>>, <<>> >>
           /\ StepPath(fd) = << <<>>, <<>> >>
           /\ _get_text_output_dir(fd) =
                << <<"c", "o", "u", "r", "s", "e">>, <<"m", "o", "d", "u", "l", "e">> >>
           /\ DOMAIN disk \subseteq {StepPath(fd), _get_text_output_dir(fd)}

\* the directory of the project the session works on, after the step
ProjectDirAfter == DirOf(disk', StepPath(session_state'.form_data))

\* "Continue" of the selection page has just loaded a project
ResumedProject == Step = STEP_EXISTING /\ Step' \notin {STEP_EXISTING, STEP_INITIAL}

\* the session value behind each document after a resume is the document
LoadedOnResume ==
    LET dir == ProjectDirAfter
        ss == session_state'
    IN /\ Some(ss.form_data) = dir.context
       /\ Has(dir.scenario_descriptions) =>
             /\ Has(ss.scenario_data)
             /\ ss.scenario_data[1].final_scenario =
                  dir.scenario_descriptions[1].scenario_description
       /\ Has(dir.scenario_metadata) => ss.metadata_data = dir.scenario_metadata
       /\ Has(dir.screens) => ss.screen_data = dir.screens
       /\ Has(dir.generated_images) => ss.generated_images = dir.generated_images

\* a save button of a stage has just written its document: the document is the
\* session value
SavedBySave ==
    LET dir == ProjectDirAfter
        ss == session_state'
    IN /\ (Step = STEP_REVIEW /\ Step' = STEP_SCENARIO) => dir.context = Some(ss.form_data)
       /\ (Step = STEP_SCENARIO /\ Step' = STEP_METADATA) =>
             /\ Has(dir.scenario_descriptions)
             /\ dir.scenario_descriptions[1].scenario_description =
                  ss.scenario_data[1].final_scenario
       /\ (Step = STEP_METADATA /\ Step' = STEP_SCREENS) =>
             dir.scenario_metadata = ss.metadata_data
       /\ (Step = STEP_SCREENS /\ Step' = STEP_IMAGES) => dir.screens = ss.screen_data

\* a stage is run by a session that holds no value of its own while a saved document
\* exists: the stage loads the document; for metadata and screens this is what the
\* session holds after the run unless a new answer was stored
LoadedByStage ==
    LET dir == DirOf(disk, StepPath(session_state.form_data))
        ss == session_state'
    IN /\ ( /\ rerun /\ Step = STEP_SCENARIO
            /\ session_state.scenario_data = Missing
            /\ Has(dir.scenario_descriptions) ) =>
             /\ Has(ss.scenario_data)
             /\ ss.scenario_data[1].scenario_description =
                  dir.scenario_descriptions[1].scenario_description
       /\ ( /\ rerun /\ Step = STEP_METADATA
            /\ session_state.scenario_data /= Missing
            /\ session_state.metadata_data = Missing
            /\ Has(dir.scenario_metadata)
            /\ (page' = "returned" \/ ss.metadata_need_generation = Some(TRUE)) ) =>
             ss.metadata_data = dir.scenario_metadata
       /\ ( /\ rerun /\ Step = STEP_SCREENS
            /\ session_state.scenario_data /= Missing
            /\ session_state.metadata_data /= Missing
            /\ session_state.screen_data = Missing
            /\ Has(dir.screens)
            /\ (page' = "returned" \/ ss.screens_need_generation = Some(TRUE)) ) =>
             ss.screen_data = dir.screens

----------------------------------------------------------------------------
(* Properties of failing saves and loads (SpecFaults) *)

\* C21: whatever happens during a save (the write fails, the process stops), every
\* stored document is entirely its previous version or entirely the new payload:
\* no file of a project is left empty, truncated or partial.
C21_WholeDocuments == \A p \in DOMAIN disk : disk[p].garbled = {}


\* the disk with every damaged file removed
WithoutGarbled(dk) == [p \in DOMAIN dk |-> [dk[p] EXCEPT !.garbled = {}]]

\* "Continue" on every listed module, on the disk dk
ResumeOutcomes(dk) ==
    { OnContinue(TopExisting(session_state, dk, calls), course, module).ss :
        course \in get_existing_courses(disk),
        module \in UNION { get_existing_modules(disk, c) : c \in get_existing_courses(disk) } }

\* C22: a document that is missing or holds malformed JSON is loaded as if it were
\* absent and no error leaves the stage: the ScenarioSelection stage never ends in an
\* unhandled exception, and resuming a module gives the session it would give
\* without the damaged files.
C22_TolerantLoad ==
    /\ (~rerun /\ Step = STEP_SCENARIO) => page /= "crash"
    /\ At(STEP_EXISTING, {"main", "load_failed"}) =>
          ResumeOutcomes(disk) = ResumeOutcomes(WithoutGarbled(disk))

\* C23: a failure returns control to the same stage with the session unchanged but
\* for the field whose operation failed; in particular a "Continue" on an existing
\* module that fails to load leaves form_data, workflow_mode and every loaded field
\* as they were before the attempt.
C23_FailedContinueContained ==
    [][ (At(STEP_EXISTING, {"main", "load_failed"}) /\ page' = "load_failed")
            => session_state' = session_state ]_vars


----------------------------------------------------------------------------
(* Properties of provider failures and of the frame of the stages (Spec) *)

\* the page of MetadataExtraction or ScreenScripting after the generator has raised
ProviderFailureShown == ~rerun /\ Step \in {STEP_METADATA, STEP_SCREENS} /\ page = "returned"

\* C24: after a provider error the stage that is shown still offers an enabled retry
\* (regenerate) action and an enabled navigation action, so the wizard is never at a
\* dead end; stated for the pages of MetadataExtraction and ScreenScripting.
C24_NoDeadEnd ==
    ProviderFailureShown =>
        /\ ENABLED (RegenerateMetadata \/ RegenerateScreens)
        /\ ENABLED (BackToScenario \/ BackToMetadata \/ SaveMetadata \/ SaveScreens)


----------------------------------------------------------------------------
(* Properties of two sessions on one project (SpecShared) *)

\* the payload a session's save writes to a document: the session's own field
SessionDocument(ss, doc) ==
    CASE doc = "context" -> Some(ss.form_data)
      [] doc = "scenario_descriptions" ->
            Some([EmptyScenario EXCEPT !.scenario_description =
                                           Get(ss.scenario_data, EmptyScenario).final_scenario])
      [] doc = "scenario_metadata" -> ss.metadata_data
      [] doc = "screens" -> ss.screen_data
      [] doc = "generated_images" -> ss.generated_images

\* a run of the acting session that changes its image array in the image stage
ImagesWrittenThrough ==
    /\ parked' = parked
    /\ Step = STEP_IMAGES /\ Step' = STEP_IMAGES
    /\ session_state'.generated_images /= session_state.generated_images
    /\ Has(session_state.generated_images)

\* C25: two sessions on the same project interleave freely; every document that a
\* run changes is afterwards the complete payload of the session that ran (nothing
\* of the other session's content is merged in), and a write-through of the image
\* array always lands (no blocking), so each document is the payload of its most
\* recent save.
C25_LastWriterWins ==
    [][ /\ parked' = parked =>
              \A p \in DOMAIN disk' : \A doc \in JsonDocuments :
                  disk'[p][doc] /= DirOf(disk, p)[doc] =>
                      disk'[p][doc] = SessionDocument(session_state', doc)
        /\ ImagesWrittenThrough =>
              DirOf(disk', _get_text_output_dir(session_state'.form_data)).generated_images
                  = session_state'.generated_images ]_vars

\* the parked session holds the image it generated and persisted for the second
\* screen; the stored array is now the acting session's and lacks that image
C25_Witness ==
    /\ Step = STEP_IMAGES /\ parked.ss.current_step = STEP_IMAGES
    /\ HasImage(ImagesOf(parked.ss), 1)
    /\ disk[ProjectPath].generated_images = session_state.generated_images
    /\ ~HasImage(disk[ProjectPath].generated_images[1], 1)


\* a step of one session that changes form_data
FormDataChanged ==
    sessions' = sessions /\ session_state'.form_data /= session_state.form_data

\* the valid submit of the Setup form, and "Start Over" of the Review stage
SetupSubmitted == Step = STEP_SETUP /\ Step' = STEP_REVIEW
StartedOver ==
    Step = STEP_REVIEW /\ Step' = STEP_INITIAL
        /\ session_state'.form_data = get_default_form_data

\* "Continue" on an existing module, which loads the saved context.json
ContextLoaded ==
    /\ Step = STEP_EXISTING
    /\ session_state'.workflow_mode = "existing_module"
    /\ \E p \in DOMAIN disk : disk[p].context = Some(session_state'.form_data)

\* C26: form_data is changed only by a valid Setup submit (and the side panel's
\* "Save All Details") and is reset only by an explicit start over; no stage from
\* ScenarioSelection on and no other navigation modifies or clears it.
C26_ContextFrame == [][ FormDataChanged => (SetupSubmitted \/ StartedOver) ]_vars

\* the start page and the buttons of the two selection pages assign the default
ResetAtSelection ==
    Step \in {STEP_INITIAL, STEP_EXISTING} /\ session_state'.form_data = get_default_form_data

\* form_data is changed only by a valid Setup submit, by "Continue" on an existing
\* module (it becomes the saved context.json), by "Start Over" and by the selection
\* pages (it becomes the default); the stages from ScenarioSelection on and every
\* other button leave it.
C26_ContextFrameWithResume ==
    [][ FormDataChanged =>
            (SetupSubmitted \/ StartedOver \/ ContextLoaded \/ ResetAtSelection) ]_vars

\* a resumed project past Review: form_data was set by "Continue", the stages kept it
C26_Witness ==
    /\ session_state.workflow_mode = "existing_module"
    /\ Step \in {STEP_SCENARIO, STEP_METADATA, STEP_SCREENS, STEP_IMAGES, STEP_PREVIEW}
    /\ session_state.form_data /= get_default_form_data
    /\ ~rerun /\ page = "main"


----------------------------------------------------------------------------
(* Properties of the selection of a scenario (SpecSelect) *)

\* C27: on the ScenarioSelection page, when an option is selected and final_scenario
\* is set, final_scenario is the text of the selected candidate: a final_scenario of
\* an earlier selection or generation is never kept for another candidate.
C27_FinalTracksSelection ==
    LET scenario_data == Get(session_state.scenario_data, EmptyScenario) IN
    ( /\ ~rerun /\ Step = STEP_SCENARIO /\ page = "main"
      /\ SelectedOf(session_state) /= PyNone
      /\ Has(scenario_data.final_scenario) )
        => scenario_data.final_scenario[1]
              = ScenariosOf(session_state)[SelectedOf(session_state) + 1]


\* C28: a screen array whose length differs from num_screens of the metadata is a
\* mismatch that ScreenScripting resolves by regeneration: the wizard is never at
\* ImageSynthesis (or later) with an array shorter or longer than num_screens.
C28_ScreenCountReconciled ==
    LET metadata == Get(session_state.metadata_data, EmptyMetadata) IN
    ( /\ Step \in {STEP_IMAGES, STEP_PREVIEW}
      /\ Has(session_state.screen_data)
      /\ Has(metadata.num_screens) )
        => Len(ScreensOf(session_state)) = metadata.num_screens[1]


----------------------------------------------------------------------------
(* Properties of the image size (SpecSize) *)

\* the lookup with the square size as the answer for every token outside the table
SquareByDefault(aspect_ratio) ==
    IF aspect_ratio = "16:9" THEN "1536x1024" ELSE "1024x1024"

\* C29: the size passed to the image generator is looked up from aspect_ratio ("1:1"
\* square, "16:9" landscape) and every other token gives the square size: each image
\* of the session has the size this lookup gives for the metadata's aspect_ratio.
C29_SquareByDefault ==
    LET metadata == Get(session_state.metadata_data, EmptyMetadata) IN
    \A i \in 1..Len(ImagesOf(session_state)) :
        Has(ImagesOf(session_state)[i].image_b64) =>
            ImagesOf(session_state)[i].image_b64[1].size
                = SquareByDefault(Get(metadata.aspect_ratio, "16:9"))


\* the click on "Regenerate Image": the run that sets regenerate_image
RegenerateClicked ==
    /\ At(STEP_IMAGES, {"main"})
    /\ session_state.regenerate_image = Missing
    /\ session_state'.regenerate_image /= Missing

\* the rerun that the click leaves pending
RegenerationPending ==
    rerun /\ Step = STEP_IMAGES /\ session_state.regenerate_image /= Missing

\* C30: "Regenerate Image" at index i empties the image of slot i only (the other
\* slots, the screens and current_image_index stay) and marks i; the pending rerun
\* calls the image generator for i without a click, and on success slot i holds the
\* new image with accepted = false and screen_number = i+1 (on a provider error the
\* slot stays empty); the mark is cleared either way.
C30_RegenerateOneSlot ==
  [][
    LET i == session_state.current_image_index[1]
        images == ImagesOf(session_state)
        after == ImagesOf(session_state')
        aspect_ratio ==
            Get(Get(session_state.metadata_data, EmptyMetadata).aspect_ratio, "16:9")
    IN     /\ RegenerateClicked =>
                /\ session_state'.regenerate_image = Some(i)
                /\ session_state'.current_image_index = session_state.current_image_index
                /\ session_state'.screen_data = session_state.screen_data
                /\ Len(after) = Len(images)
                /\ \A k \in 1..Len(images) :
                      IF k = i + 1
                      THEN after[k] = [images[k] EXCEPT !.image_b64 = Missing]
                      ELSE after[k] = images[k]
                /\ disk'[ProjectPath].generated_images = Some(after)
                /\ rerun'
           /\ RegenerationPending =>
                /\ session_state.regenerate_image = Some(i)
                /\ session_state'.regenerate_image = Missing
                /\ session_state'.current_image_index = session_state.current_image_index
                /\ session_state'.screen_data = session_state.screen_data
                /\ \/ /\ page' = "rerun"
                      /\ after = [images EXCEPT ![i + 1] =
                                    [image_b64 |-> Some(ImageFor(ScreensOf(session_state)[i + 1],
                                                                 aspect_ratio)),
                                     accepted |-> Some(FALSE),
                                     screen_number |-> Some(i + 1)]]
                      /\ disk'[ProjectPath].generated_images = Some(after)
                   \/ /\ page' = "gen_failed"
                      /\ after = images
                      /\ disk' = disk
  ]_vars

\* the second image is being regenerated while the first slot holds its image
C30_Witness ==
    /\ RegenerationPending
    /\ session_state.regenerate_image = Some(1)
    /\ HasImage(ImagesOf(session_state), 0)
    /\ ~HasImage(ImagesOf(session_state), 1)

-----------------------------------------------------------------------------
(* Properties of the preview (SpecPreview) *)

\* every screen has a slot that holds an image
EverySlotFilled ==
    /\ ScreensOf(session_state) /= <<>>
    /\ Len(ImagesOf(session_state)) >= Len(ScreensOf(session_state))
    /\ \A k \in 1..Len(ScreensOf(session_state)) :
          ImagesOf(session_state)[k].image_b64 /= Missing

\* the files of the folder of composited frames of the project of the session
CompositedFiles(dk) ==
    Get(DirOf(dk, _get_text_output_dir(session_state.form_data)).composited_screens, {})

\* C31: accepted is advisory. On the image page the preview is available exactly when
\* there are screens and every screen has a non-empty image, whatever the accepted
\* fields are; a compositing pass in which no screen fails writes the frame of every
\* screen with a non-empty image, accepted or not; Accept sets accepted of the
\* current slot, advances the index unless the slot is the last one, and leaves the
\* images themselves as they are.
C31_AcceptedAdvisory ==
    /\ []( ~rerun /\ Step = STEP_IMAGES /\ page \in {"main", "need_gen", "gen_failed"}
             => (ENABLED Preview <=> EverySlotFilled) )
    /\ [][ LET i == session_state.current_image_index[1]
               images == ImagesOf(session_state)
               after == ImagesOf(session_state')
           IN /\ RenderPreview /\ session_state.should_save_composited =>
                    CompositedFiles(disk') =
                        CompositedFiles(disk) \cup
                        { k \in 1..Len(ScreensOf(session_state)) :
                             images[k].image_b64 /= Missing }
              /\ Accept =>
                    /\ after = [images EXCEPT ![i + 1].accepted = Some(TRUE)]
                    /\ session_state'.current_image_index =
                          IF i < Len(ScreensOf(session_state)) - 1
                          THEN Some(i + 1) ELSE Some(i)
                    /\ disk'[ProjectPath].generated_images = Some(after)
         ]_vars

\* the slideshow is open and its frames are written while a slot is not accepted
C31_Witness ==
    /\ ~rerun /\ Step = STEP_PREVIEW /\ page = "main"
    /\ CompositedFiles(disk) = 1..Len(ScreensOf(session_state))
    /\ \E k \in 1..Len(ScreensOf(session_state)) :
          ImagesOf(session_state)[k].accepted /= Some(TRUE)
    /\ \E k \in 1..Len(ScreensOf(session_state)) :
          ImagesOf(session_state)[k].accepted = Some(TRUE)

\* a compositing pass is about to run: the preview was entered through the button
PassPending == Pending(STEP_PREVIEW) /\ session_state.should_save_composited

\* C32: compositing is best-effort per screen. Whatever set of screens fails in a
\* pass, the pass adds the file screen_<i+1>.png of every screen i that has an image
\* and does not fail itself, adds no file of a failing screen, and the run goes on
\* to show the slideshow with the pass marked as done.
C32_BestEffortPerScreen ==
    PassPending =>
        \A failing \in SUBSET (0..(Len(ScreensOf(session_state)) - 1)) :
            LET o == TopPreview(session_state, disk, calls, failing)
                ok == { i \in 0..(Len(ScreensOf(session_state)) - 1) :
                          /\ ImagesOf(session_state)[i + 1].image_b64 /= Missing
                          /\ i \notin failing }
            IN /\ CompositedFiles(o.dk) = CompositedFiles(disk) \cup { i + 1 : i \in ok }
               /\ o.page = "main"
               /\ o.ss.current_step = STEP_PREVIEW
               /\ ~o.ss.should_save_composited

\* the first screen failed in the only pass so far, and the second one was written
C32_Witness ==
    /\ ~rerun /\ Step = STEP_PREVIEW /\ page = "main"
    /\ Len(ScreensOf(session_state)) = 2
    /\ CompositedFiles(disk) = {2}

\* C33: compositing is idempotent per entry: an entry into the preview through the
\* button runs the pass once, stepping through the slideshow runs none, and after
\* any number of entries the folder holds at most one file per screen position,
\* named by the 1-based position, with the content of the latest pass. A pass
\* entered through the button writes the frame of every position of its screens,
\* so in the slideshow every file of the folder has to be the frame of one of the
\* positions 1..n of the screens shown: any other file is left from an earlier pass.
C33_FramesOfLatestPass ==
    ~rerun /\ Step = STEP_PREVIEW /\ page = "main" =>
        CompositedFiles(disk) \subseteq 1..Len(ScreensOf(session_state))

-----------------------------------------------------------------------------
(* Properties of the extraction of JSON (SpecExtract) *)

\* the balanced objects of a text, as pairs of first and last position
BalancedObjects(text) ==
    { ij \in (1..Len(text)) \X (1..Len(text)) :
        ij[1] < ij[2] /\ json_loads_ok(SubSeq(text, ij[1], ij[2])) }

\* the first of them: the one that starts leftmost
FirstBalancedObject(text) ==
    LET ij == CHOOSE x \in BalancedObjects(text) :
                 \A y \in BalancedObjects(text) : x[1] <= y[1]
    IN SubSeq(text, ij[1], ij[2])

\* C34: for every response that contains a balanced JSON object, with prose before
\* and after it (prose after it that contains braces included), the extraction
\* yields the first balanced object of the text.
C34_FirstBalancedObject ==
    gpt_scenarios /= Missing /\ BalancedObjects(gpt_content.content) /= {} =>
        gpt_scenarios[1] =
            [kind |-> "json", value |-> FirstBalancedObject(gpt_content.content)]

-----------------------------------------------------------------------------
(* Properties of a second project in the same session (SpecCarry) *)

\* the metadata is the one of the saved project: its aspect ratio is the mark, no
\* answer of the provider and no default has it
OfSavedProject(md) == md.aspect_ratio = ProjectDocs.scenario_metadata.aspect_ratio

\* C35: after Start Over (or Create New Project from the start page) and the setup
\* of a project with another course, the derived data of the previous project is not
\* shown in a stage of the new project and is not written into its directory.
C35_NothingCarried ==
    /\ \A p \in DOMAIN disk \ {ProjectPath} :
          Has(disk[p].scenario_metadata) => ~OfSavedProject(disk[p].scenario_metadata[1])
    /\ ~rerun /\ page = "main" /\ Step = STEP_METADATA
          /\ session_state.form_data.course_title \in { Some(t) : t \in OtherCourseTitles }
       => ~OfSavedProject(Get(session_state.metadata_data, EmptyMetadata))

-----------------------------------------------------------------------------
(* Properties of the selection in a resumed session (SpecResumeSelect) *)

\* C36: in every reachable state a selected_scenario that is not null is an index
\* into generated_scenarios, 0 <= selected_scenario < len(generated_scenarios); a
\* session that resumed a project at ScenarioSelection with only the final scenario
\* loaded is included.
C36_SelectionIndexValid ==
    SelectedOf(session_state) /= PyNone =>
        /\ 0 <= SelectedOf(session_state)
        /\ SelectedOf(session_state) < Len(ScenariosOf(session_state))

-----------------------------------------------------------------------------
(* Properties of a resumed project that is only looked at (SpecRehydrate) *)

\* C37: after a Continue that resumes at stage t from documents that are a prefix of
\* the fixed order, the session holds the final scenario (t >= ScenarioSelection),
\* the metadata (t >= MetadataExtraction), the screens (t >= ScreenScripting) and the
\* images (t >= ImageSynthesis) of the stored documents and the need-generation flag
\* of every stage up to t is false; rendering stage t, or an earlier stage reached
\* with Back, calls no generator, produces no image and writes nothing.
C37_RehydratedNotRegenerated ==
    /\ [][ LET dir == ProjectDir
               ss == session_state'
               t == session_state'.current_step
           IN /\ (Resumed /\ IsPrefix(dir)) =>
                    /\ t >= STEP_SCENARIO =>
                          /\ Get(ss.scenario_data, EmptyScenario).final_scenario
                                = dir.scenario_descriptions[1].scenario_description
                          /\ ss.scenarios_need_generation = Some(FALSE)
                    /\ t >= STEP_METADATA =>
                          /\ ss.metadata_data = dir.scenario_metadata
                          /\ ss.metadata_need_generation = Some(FALSE)
                    /\ t >= STEP_SCREENS =>
                          /\ ss.screen_data = dir.screens
                          /\ ss.screens_need_generation = Some(FALSE)
                    /\ t >= STEP_IMAGES =>
                          /\ Has(dir.generated_images)
                          /\ ss.generated_images = dir.generated_images
              /\ IsPrefix(dir) => disk' = disk
         ]_vars
    /\ []( IsPrefix(ProjectDir) =>
             /\ calls = NoCalls
             /\ Has(session_state.generated_images) =>
                   session_state.generated_images = ProjectDir.generated_images )

\* a project with its first four documents was resumed at ScreenScripting and the
\* user went back to MetadataExtraction, which is on the screen
C37_Witness ==
    /\ Existing(ProjectDir) = 1..4
    /\ session_state.workflow_mode = "existing_module"
    /\ ~rerun /\ Step = STEP_METADATA /\ page = "main"
    /\ session_state.screens_need_generation = Some(FALSE)
    /\ calls = NoCalls

-----------------------------------------------------------------------------
(* Properties of the saved scenario (SpecEdit) *)

\* the scenario stage is on the screen with its Save & Continue button
SaveOffered == ~rerun /\ Step = STEP_SCENARIO /\ page \in {"main", "refused"}

\* C38: "Save & Continue" of ScenarioSelection succeeds only when a candidate is
\* selected, and right after it succeeds the scenario_description on disk, the
\* final_scenario of the session and the text of the selected candidate are the text
\* the edit box held in the run of the save, whether that text was typed, came from
\* "Update with AI" or is the candidate as generated.
C38_SavedScenarioConsistent ==
    /\ []( SaveOffered =>
             \A outcome \in WizardScenarioOutcomes :
             \A edited_scenario \in BoxTexts(session_state) \cup EditedTexts :
                LET o == OnSaveScenario(
                            EditScenario(TopScenario(session_state, disk, calls, outcome),
                                         edited_scenario))
                    succeeded == o.ss.current_step = STEP_METADATA
                    dir == DirOf(o.dk, StepPath(o.ss.form_data))
                IN IF SelectedOf(session_state) = PyNone
                   THEN ~succeeded /\ o.dk = disk
                   ELSE /\ succeeded
                        /\ dir.scenario_descriptions[1].scenario_description
                              = Some(edited_scenario)
                        /\ o.ss.scenario_data[1].final_scenario = Some(edited_scenario)
                        /\ ScenariosOf(o.ss)[SelectedOf(o.ss) + 1] = edited_scenario )
    /\ [][ ScenarioSaved =>
             /\ SelectedOf(session_state) /= PyNone
             /\ SelectedOf(session_state') = SelectedOf(session_state)
             /\ DirOf(disk', StepPath(session_state'.form_data))
                   .scenario_descriptions[1].scenario_description
                   = session_state'.scenario_data[1].final_scenario
             /\ session_state'.scenario_data[1].final_scenario
                   = Some(ScenariosOf(session_state')[SelectedOf(session_state') + 1])
         ]_vars

\* a candidate was refined by "Update with AI", and a text typed into the box was
\* saved as the scenario
C38_Witness ==
    /\ Step = STEP_METADATA
    /\ SelectedOf(session_state) /= PyNone
    /\ \E e \in EditedTexts :
          /\ session_state.scenario_data[1].final_scenario = Some(e)
          /\ DirOf(disk, StepPath(session_state.form_data))
                .scenario_descriptions[1].scenario_description = Some(e)
    /\ \E k \in 1..Len(ScenariosOf(session_state)) :
          ScenariosOf(session_state)[k] \in UpdatedTexts

-----------------------------------------------------------------------------
(* Properties of the router (Spec) *)

\* C39: for every value that a transition assigns to current_step the router calls
\* the function of the stage the transition enters (1 Setup, 2 Review,
\* 3 ScenarioSelection, 4 MetadataExtraction, 5 ScreenScripting, 6 ImageSynthesis,
\* 7 Preview), and the function the router names exists among the step functions:
\* in every state the router's branch for current_step is the function of the
\* stage the session is in.
C39_RouterAgrees ==
    /\ main(Step) = StageFunction(Step)
    /\ main(Step) \in StepFunctions

====
